---------------------------- MODULE Spec2Model ----------------------------
(***************************************************************************)
(* A model of the repository aggregation and caching layer of              *)
(* yungryce/portfolio-api: GitHubClient (src/github_client.py).            *)
(*                                                                         *)
(* Python values are tagged tuples: <<"None">>, <<"str", tokens>>,         *)
(* <<"list", seq>>, <<"dict", seq of <<key, value>> >>.  Strings are       *)
(* sequences of tokens; in those the code takes apart (endpoints, cache    *)
(* keys) the separators "/" and "_" are tokens of their own.  Time is in   *)
(* seconds.                                                                *)
(***************************************************************************)
EXTENDS Naturals, Integers, Sequences, FiniteSets, TLC

VARIABLES
    now,                  \* wall clock, datetime.now() / time.time()
    use_cache,            \* GitHubClient.use_cache
    blob_service_client,  \* GitHubClient.blob_service_client: "client" or "none"
    store,                \* the blob container: cache key -> blob text
    ret,                  \* the last finished cache call and what it returned
    rd,                   \* a _get_from_cache of a concurrent request flow,
                          \* between its calls on the blob store
    lastPut,              \* per cache key, the most recent _save_to_cache call
                          \* when it succeeded
    mr,                   \* the make_request call in progress or just finished
    nreq,                 \* make_request calls started so far
    upstream,             \* the repositories the upstream API lists for the user
    ls,                   \* the get_user_repos call in progress or just finished
    ag,                   \* the get_processed_repos call in progress or just
                          \* finished
    md,                   \* the extract_repo_metadata call just finished
    rs,                   \* a README and the extract_readme_sections call on it
    gc,                   \* a collection and the generate_enhanced_context
                          \* calls on it
    pq                    \* the portfolio_query request in progress or answered

vars == <<now, use_cache, blob_service_client, store, ret, rd, lastPut, mr,
          nreq, upstream, ls, ag, md, rs, gc, pq>>

cacheVars == <<ret, rd, lastPut>>

requestVars == <<mr, nreq>>

listingVars == <<upstream, ls>>

extractVars == <<md, rs>>

queryVars == <<gc, pq>>

-----------------------------------------------------------------------------
(* Bounds of the model *)

MaxTime == 7200

MaxRequests == 2

MaxRepos == 5

MaxPages == 4

\* the page size the listing is explored with (get_user_repos's per_page
\* argument; its default is 100)
PerPage == 2

MaxMetadataCalls == 2

MaxLines == 4

MaxQueries == 2

TickSteps == {3600}

-----------------------------------------------------------------------------
(* Python values *)

None == <<"None">>

\* `v = ...; return Op(v)`: the value of Op at v, v being computed once
Bind(v, Op(_)) == CHOOSE r \in {Op(x) : x \in {v}} : TRUE

Str(s) == <<"str", s>>

List(s) == <<"list", s>>

Dict(s) == <<"dict", s>>

\* a mutant of Truthy: only None is falsy
TruthyUnlessNone(v) == v[1] # "None"

\* bool(v) as Python's `if v:` / `not v` see it: None and the empty string,
\* list and dict are falsy
Truthy(v) == v[1] # "None" /\ Len(v[2]) > 0

\* json.dumps: the text of a JSON document holding v
JsonDumps(v) == <<"json", v>>

\* whether json.loads accepts the text
IsJson(text) == text[1] = "json"

\* json.loads of a text it accepts
JsonLoads(text) == text[2]

\* datetime.isoformat
IsoFormat(t) == <<"iso", t>>

\* a mutant of IsIsoFormat: any text is taken for a timestamp
IsIsoFormatLenient(s) == TRUE

\* whether datetime.fromisoformat accepts the text
IsIsoFormat(s) == s[1] = "iso"

\* datetime.fromisoformat of a text it accepts
FromIsoFormat(s) == s[2]

-----------------------------------------------------------------------------
(* Cache Store: GitHubClient._cache_key, _get_from_cache, _save_to_cache *)

cache_ttl == 3600

\* endpoint.replace('/', '_')
CacheKey(endpoint) ==
    [i \in DOMAIN endpoint |-> IF endpoint[i] = "/" THEN "_" ELSE endpoint[i]]

\* `not self.blob_service_client or not self.use_cache`
CacheDisabled == blob_service_client = "none" \/ ~use_cache

\* a mutant of NotExpired: an entry still counts as valid at its expiry
NotExpiredInclusive(expires_at, t) == expires_at >= t

\* a mutant of NotExpired: an entry counts as expired a default TTL early
NotExpiredEarly(expires_at, t) == expires_at > t + cache_ttl

\* `expires_at > datetime.now()`
NotExpired(expires_at, t) == expires_at > t

\* which call on the blob store raises during one cache operation
StoreFaults == {"none", "exists", "download", "delete", "upload"}

\* _get_from_cache on store st at time t: the value returned and the store left.
\* Whatever raises inside the try block (a call on the blob store, json.loads,
\* fromisoformat, the lookup of 'data') ends in the except clause: None is
\* returned and the store is left as it was.
GetFromCache(st, endpoint, t, fault) ==
    LET cache_key == CacheKey(endpoint)
        miss      == [value |-> None, store |-> st]
        deleted   == IF fault = "delete" THEN miss
                     ELSE [value |-> None,
                           store |-> [k \in DOMAIN st \ {cache_key} |-> st[k]]]
    IN  IF CacheDisabled THEN miss
        ELSE IF fault = "exists" THEN miss
        ELSE IF cache_key \notin DOMAIN st THEN miss
        ELSE IF fault = "download" THEN miss
        ELSE IF ~IsJson(st[cache_key]) THEN miss
        ELSE LET cache_data == JsonLoads(st[cache_key])
             IN  IF "expires_at" \notin DOMAIN cache_data THEN deleted
                 ELSE IF ~IsIsoFormat(cache_data.expires_at) THEN miss
                 ELSE IF NotExpired(FromIsoFormat(cache_data.expires_at), t)
                 THEN IF "data" \in DOMAIN cache_data
                      THEN [value |-> cache_data.data, store |-> st]
                      ELSE miss
                 ELSE deleted

\* a mutant of EffectiveTtl: the ttl argument is ignored
EffectiveTtlDefaultOnly(ttl) == cache_ttl

\* a mutant of EffectiveTtl: the ttl argument is taken as it is
EffectiveTtlAsGiven(ttl) == ttl

\* `ttl = ttl or self.cache_ttl`; ttl=None and ttl=0 are both falsy and are
\* both written 0 here
EffectiveTtl(ttl) == IF ttl = 0 THEN cache_ttl ELSE ttl

\* _save_to_cache on store st at time t: True/False and the store left
SaveToCache(st, endpoint, data, ttl, t, fault) ==
    LET cache_key  == CacheKey(endpoint)
        cache_data == [data       |-> data,
                       expires_at |-> IsoFormat(t + EffectiveTtl(ttl)),
                       cached_at  |-> IsoFormat(t)]
    IN  IF CacheDisabled THEN [value |-> FALSE, store |-> st]
        ELSE IF fault = "upload" THEN [value |-> FALSE, store |-> st]
        ELSE [value |-> TRUE,
              store |-> [k \in DOMAIN st \cup {cache_key} |->
                            IF k = cache_key THEN JsonDumps(cache_data)
                            ELSE st[k]]]

-----------------------------------------------------------------------------
(* The cache driven directly: any sequence of gets and puts as time passes *)

CacheEndpoints == {<<"a", "/", "b">>, <<"a", "_", "b">>, <<"c">>}

CachePayloads == {Str(<<"x">>), List(<<1>>)}

CacheTtls == {0, 7200}

NoCall == [op |-> "none"]

\* a blob that is a readable envelope, and its expiry
WellFormed(blob) == IsJson(blob) /\ {"data", "expires_at"} \subseteq DOMAIN JsonLoads(blob) /\ JsonLoads(blob).expires_at[1] = "iso"

HasEntry(st, k) == k \in DOMAIN st /\ WellFormed(st[k])

ExpiresAt(st, k) == FromIsoFormat(JsonLoads(st[k]).expires_at)

\* the TTL a put asks for: its ttl argument, or the default of one hour when it
\* gives none (the spec's "default TTL (1 hour unless overridden)")
RequestedTtl(ttl) == IF ttl = 0 THEN 3600 ELSE ttl

InitClient ==
    /\ use_cache \in BOOLEAN
    /\ blob_service_client \in {"client", "none"}
    /\ (~use_cache => blob_service_client = "none")

InitCache ==
    /\ now = 0
    /\ InitClient
    /\ store = <<>>
    /\ ret = NoCall
    /\ rd = [pc |-> "idle"]
    /\ md = [pc |-> "idle"]
    /\ rs = [pc |-> "idle"]
    /\ gc = [pc |-> "idle"]
    /\ pq = [pc |-> "idle"]
    /\ lastPut = <<>>
    /\ mr = [pc |-> "idle"]
    /\ nreq = 0
    /\ upstream = <<>>
    /\ ls = [pc |-> "idle"]
    /\ ag = [pc |-> "idle"]

Tick ==
    /\ \E d \in TickSteps :
          /\ now + d <= MaxTime
          /\ now' = now + d
    /\ UNCHANGED <<use_cache, blob_service_client, store, cacheVars, requestVars,
                   listingVars, ag,
                   extractVars, queryVars>>

CacheGet(endpoint, fault) ==
    LET k == CacheKey(endpoint)
        r == GetFromCache(store, endpoint, now, fault)
    IN  /\ store' = r.store
        /\ ret' = [op       |-> "get",
                   endpoint |-> endpoint,
                   healthy  |-> fault = "none",
                   fault    |-> fault,
                   entry    |-> IF k \in DOMAIN store THEN store[k] ELSE None,
                   expired  |-> HasEntry(store, k) /\ ExpiresAt(store, k) <= now,
                   before   |-> k \in DOMAIN lastPut /\ now < lastPut[k].until,
                   value    |-> r.value]
        /\ UNCHANGED <<now, use_cache, blob_service_client, rd, lastPut, requestVars,
                       listingVars, ag,
                   extractVars, queryVars>>

CachePut(endpoint, data, ttl, fault) ==
    LET k == CacheKey(endpoint)
        r == SaveToCache(store, endpoint, data, ttl, now, fault)
    IN  /\ store' = r.store
        /\ ret' = [op       |-> "put",
                   endpoint |-> endpoint,
                   healthy  |-> fault = "none",
                   fault    |-> fault,
                   value    |-> r.value]
        /\ lastPut' = IF r.value
                      THEN [x \in DOMAIN lastPut \cup {k} |->
                              IF x = k
                              THEN [data |-> data,
                                    endpoint |-> endpoint,
                                    until |-> now + RequestedTtl(ttl),
                                    over |-> HasEntry(store, k)
                                             /\ JsonLoads(store[k]).data # data]
                              ELSE lastPut[x]]
                      ELSE [x \in DOMAIN lastPut \ {k} |-> lastPut[x]]
        /\ UNCHANGED <<now, use_cache, blob_service_client, rd, requestVars,
                       listingVars, ag,
                   extractVars, queryVars>>

NextCache ==
    \/ Tick
    \/ \E e \in CacheEndpoints, f \in {"none", "exists", "download", "delete"} :
          CacheGet(e, f)
    \/ \E e \in CacheEndpoints, d \in CachePayloads, t \in CacheTtls,
          f \in {"none", "upload"} :
          CachePut(e, d, t, f)

SpecCache == InitCache /\ [][NextCache]_vars

-----------------------------------------------------------------------------
(* Claims about the Cache Store *)

RetKey == CacheKey(ret.endpoint)

\* a read of an entry at or after its expiresAt has just returned
ExpiredRead == ret.op = "get" /\ ret.expired

\* C1 as stated: a _get_from_cache at or after an entry's expiresAt returns
\* None and the entry is no longer in the backing store afterwards.
C1_NoEntrySurvivesExpiredRead ==
    ExpiredRead => ret.value = None /\ RetKey \notin DOMAIN store

\* C1 as amended: a _get_from_cache at or after an entry's expiresAt always
\* returns None, and the entry is gone from the backing store afterwards when
\* the cache is enabled and no call on the blob store raised during the read.
C1_ExpiredReadReturnsNone ==
    ExpiredRead =>
        /\ ret.value = None
        /\ (ret.healthy /\ ~CacheDisabled => RetKey \notin DOMAIN store)

\* an entry was read exactly at its expiresAt, got None and was deleted
C1_Witness ==
    /\ ExpiredRead
    /\ ret.healthy
    /\ ret.value = None
    /\ RetKey \notin DOMAIN store
    /\ RetKey \in DOMAIN lastPut
    /\ lastPut[RetKey].until = now

\* C2: with the cache enabled and the store healthy, a _get_from_cache made
\* before the TTL of the most recent _save_to_cache on that key has elapsed
\* returns exactly the payload of that most recent put.
C2_PutGetRoundTrip ==
    (ret.op = "get" /\ ret.healthy /\ ~CacheDisabled /\ ret.before)
        => ret.value = lastPut[RetKey].data

\* a get returned the payload of a put that overwrote a different payload
C2_Witness ==
    /\ ret.op = "get"
    /\ ret.healthy
    /\ ret.before
    /\ lastPut[RetKey].over
    /\ ret.value = lastPut[RetKey].data

\* a get has just returned a payload kept under a key that was last written
\* by a put of this run
GotPayloadOfPut ==
    /\ ret.op = "get"
    /\ ret.value # None
    /\ RetKey \in DOMAIN lastPut

\* C28: two distinct identifiers never normalize to the same storage object
\* name: the payload a get returns was written for the identifier the get was
\* made for, never for another
C28_EntryIsReadForItsIdentifier ==
    GotPayloadOfPut => lastPut[RetKey].endpoint = ret.endpoint

-----------------------------------------------------------------------------
(* HTTP Request Executor: GitHubClient.make_request *)

retries == 3

\* response.json() raises: the body is not a JSON document
Invalid == <<"invalid">>

\* a mutant of Upper: every method counts as GET
UpperAlwaysGet(method) == "GET"

\* method.upper()
Upper(method) == IF method = "get" THEN "GET" ELSE method

\* the request's query parameters: None, or the listing's per_page and page
\* (its 'sort': 'updated' is the same in every request)
Params(per_page, page) == <<"params", per_page, page>>

Min(a, b) == IF a < b THEN a ELSE b

\* the upstream's page `page` of a listing, per_page items to the page
PageOf(listing, per_page, page) ==
    SubSeq(listing, (page - 1) * per_page + 1, Min(page * per_page, Len(listing)))

\* users/{username}/repos
ReposEndpoint(username) == <<"users", "/", username, "/", "repos">>

\* repos/{username}/{repo}/languages, repos/{username}/{repo}/readme and
\* repos/{username}/{repo}/contents/{path}
LanguagesEndpoint(username, repo) ==
    <<"repos", "/", username, "/", repo, "/", "languages">>

ReadmeEndpoint(username, repo) ==
    <<"repos", "/", username, "/", repo, "/", "readme">>

ContentsEndpoint(username, repo, path) ==
    <<"repos", "/", username, "/", repo, "/", "contents", "/", path>>

\* the upstream's language statistics of a repository, in response order
LanguagesOf(repo) ==
    IF repo = "A" THEN Dict(<<<<"Go", 700>>, <<"Shell", 30>>>>)
    ELSE IF repo = "B" THEN Dict(<<>>)
    ELSE Dict(<<<<"Python", 50>>>>)

\* the upstream's README of a repository, a character to the token; a title
\* of the section patterns is one token
ReadmeOf(repo) ==
    IF repo = "A"
    THEN <<"#", " ", "w", "\n",
           "#", "#", " ", "Technology Signature", "\n", "w", " ", "w", "\n",
           "#", "#", " ", "w", "\n", "w">>
    ELSE IF repo = "B" THEN <<>>
    ELSE <<"w", "\n">>

\* the upstream's file of a repository at a path; B's manifest is an empty file
FileOf(repo, path) ==
    IF path = ".repo-context.json" THEN <<"{", "context", repo, "}">>
    ELSE IF repo = "B" /\ path = "PROJECT-MANIFEST.md" THEN <<>>
    ELSE <<"#", " ", path, " ", repo>>

\* what the upstream holds for a request: the JSON document of a 200 answer
UpstreamJson(endpoint, params) ==
    IF Len(endpoint) = 5 /\ endpoint[1] = "users" /\ endpoint[5] = "repos"
    THEN IF params = None THEN List(PageOf(upstream, 30, 1))
         ELSE List(PageOf(upstream, params[2], params[3]))
    ELSE IF Len(endpoint) = 7 /\ endpoint[7] = "languages"
    THEN LanguagesOf(endpoint[5])
    ELSE Dict(<<<<"of", Str(<<endpoint, params>>)>>>>)

\* json.loads of a character document: an object `{key value}`, or Invalid
\* (json.JSONDecodeError) for any other text
JsonLoadsText(text) ==
    LET d == text[2]
    IN  IF Len(d) = 4 /\ d[1] = "{" /\ d[4] = "}"
        THEN Dict(<<<<d[2], Str(<<d[3]>>)>>>>)
        ELSE Invalid

\* the body of a 200 answer to a request for the raw media type
UpstreamRaw(endpoint, params) ==
    IF Len(endpoint) = 7 /\ endpoint[7] = "readme"
    THEN Str(ReadmeOf(endpoint[5]))
    ELSE IF Len(endpoint) = 9 /\ endpoint[7] = "contents"
    THEN Str(FileOf(endpoint[5], endpoint[9]))
    ELSE Str(<<"raw", endpoint, params>>)

\* requests.request: what one HTTP call of the request comes to.  An exception
\* raised by the transport, or a response: status, the X-RateLimit-Remaining
\* header (None when absent), X-RateLimit-Reset minus time.time(), the body
\* text and what response.json() gives for it.
Outcome(endpoint, params, accept_raw, kind) ==
    LET resp(status, remaining, reset_in, json) ==
            [kind |-> "response", status |-> status, remaining |-> remaining,
             reset_in |-> reset_in,
             text |-> IF accept_raw /\ kind = "ok"
                      THEN UpstreamRaw(endpoint, params)
                      ELSE IF kind = "no_content" THEN Str(<<>>)
                      ELSE Str(<<"body", kind, endpoint, params>>),
             json |-> json]
        message == Dict(<<<<"message", Str(<<kind>>)>>>>)
    IN  CASE kind = "dns"         ->
                [kind |-> "exception", type |-> "ConnectionError",
                 exc |-> Str(<<"Failed to resolve">>)]
          [] kind = "timeout"     ->
                [kind |-> "exception", type |-> "Timeout",
                 exc |-> Str(<<"Read timed out">>)]
          [] kind = "ok"          ->
                resp(200, None, 0,
                     IF accept_raw
                     THEN JsonLoadsText(UpstreamRaw(endpoint, params))
                     ELSE UpstreamJson(endpoint, params))
          [] kind = "ok_text"     -> resp(200, None, 0, Invalid)
          [] kind = "no_content"  -> resp(204, None, 0, Invalid)
          [] kind = "not_found"   -> resp(404, None, 0, message)
          [] kind = "bad_gateway" -> resp(502, None, 0, Invalid)
          [] kind = "forbidden"   -> resp(403, None, 0, message)
          [] kind = "rl_past"     -> resp(403, <<"int", 0>>, 0, message)
          [] kind = "rl_wait"     -> resp(403, <<"int", 0>>, 30, message)
          [] kind = "rl_long"     -> resp(403, <<"int", 0>>, 60, message)

OutcomeKinds ==
    {"dns", "timeout", "ok", "ok_text", "no_content", "not_found",
     "bad_gateway", "forbidden", "rl_past", "rl_wait", "rl_long"}

\* `try: response.json() except: response.text`
JsonOrText(resp) == IF resp.json # Invalid THEN resp.json ELSE resp.text

\* a mutant of ResponseResult: a raw request gets the body text of any status
ResponseResultRawAsIs(resp, accept_raw, cache_eligible) ==
    IF accept_raw THEN resp.text ELSE JsonOrText(resp)

\* lines 175-196: what make_request returns for a response it does not wait on
ResponseResult(resp, accept_raw, cache_eligible) ==
    IF resp.status = 200 /\ cache_eligible
    THEN IF accept_raw THEN resp.text ELSE JsonOrText(resp)
    ELSE IF accept_raw
         THEN IF resp.status = 200 THEN resp.text ELSE None
         ELSE JsonOrText(resp)

\* a mutant of RateLimitWait: a wait of 60 s is still waited out
RateLimitWaitUpToCap(resp) ==
    LET wait_time == IF resp.reset_in > 0 THEN resp.reset_in ELSE 0
    IN  /\ resp.status = 403
        /\ resp.remaining # None
        /\ resp.remaining[2] = 0
        /\ wait_time > 0
        /\ wait_time <= 60

\* lines 165-171: the response is a rate-limit refusal that is waited out
RateLimitWait(resp) ==
    LET wait_time == IF resp.reset_in > 0 THEN resp.reset_in ELSE 0
    IN  /\ resp.status = 403
        /\ resp.remaining # None
        /\ resp.remaining[2] = 0
        /\ wait_time > 0
        /\ wait_time < 60

\* `for attempt in range(retries)`: `continue` goes on to the next attempt
NextAttempt(f, o) == f.attempt + 1

\* lines 124-150: the call up to the retry loop.  use_cache_arg is "default"
\* for use_cache=None.  Gives the frame, the store and the clock.
BeginRequest(st, t, method, endpoint, params, accept_raw, use_cache_arg, fault) ==
    LET uc == IF use_cache_arg = "default" THEN use_cache
              ELSE use_cache_arg = "yes"
        cache_eligible == Upper(method) = "GET" /\ uc
        g == IF cache_eligible THEN GetFromCache(st, endpoint, t, fault)
             ELSE [value |-> None, store |-> st]
        f == [pc |-> "loop", method |-> method, endpoint |-> endpoint,
              params |-> params, accept_raw |-> accept_raw,
              cache_eligible |-> cache_eligible,
              attempt |-> 0, backoff |-> 1, last_exception |-> None,
              result |-> None, response |-> None, from_cache |-> FALSE,
              hist |-> <<>>, sleeps |-> <<>>,
              cache_fault |-> IF cache_eligible THEN fault ELSE "none",
              save_fault |-> "none", returned_at |-> t,
              called_at |-> t,
              entry_at_call |-> IF CacheKey(endpoint) \in DOMAIN st
                                THEN st[CacheKey(endpoint)] ELSE None]
    IN  [frame |-> IF cache_eligible /\ g.value # None
                   THEN [f EXCEPT !.pc = "returned", !.result = g.value,
                                  !.from_cache = TRUE]
                   ELSE f,
         store |-> g.store,
         now   |-> t]

\* lines 152-212: one pass of the retry loop for the outcome o of its HTTP call
AttemptStep(f, st, t, o, fault) ==
    IF o.kind = "exception"
    THEN [frame |-> [f EXCEPT !.last_exception = o.exc,
                              !.sleeps = Append(@, <<"backoff", f.backoff>>),
                              !.backoff = 2 * @,
                              !.hist = Append(@, "exception"),
                              !.attempt = NextAttempt(f, o)],
          store |-> st,
          now   |-> t + f.backoff]
    ELSE IF RateLimitWait(o)
    THEN [frame |-> [f EXCEPT !.sleeps = Append(@, <<"rate_limit", o.reset_in + 1>>),
                              !.hist = Append(@, "rate_limit"),
                              !.attempt = NextAttempt(f, o)],
          store |-> st,
          now   |-> t + o.reset_in + 1]
    ELSE LET result == ResponseResult(o, f.accept_raw, f.cache_eligible)
             saved  == IF o.status = 200 /\ f.cache_eligible
                       THEN SaveToCache(st, f.endpoint, result, 0, t, fault).store
                       ELSE st
         IN  [frame |-> [f EXCEPT !.pc = "returned",
                                  !.result = result,
                                  !.response = o,
                                  !.hist = Append(@, "response"),
                                  !.save_fault = fault,
                                  !.returned_at = t],
              store |-> saved,
              now   |-> t]

\* lines 214-216: the loop ran out; the error names str(last_exception)
RaiseStep(f) ==
    [f EXCEPT !.pc = "raised",
              !.result = <<"Exception", <<"GitHub API request failed after",
                                          retries, "attempts">>,
                           f.last_exception>>]

-----------------------------------------------------------------------------
(* make_request driven directly, one pass of its retry loop at a time *)

Methods == {"GET", "get", "POST"}

RequestEndpoints == {<<"repos", "/", "u", "/", "A">>}

RequestParams == {None}

UseCacheArgs == {"default", "yes", "no"}

InitRequest == InitCache

StartRequest(method, endpoint, params, accept_raw, use_cache_arg, fault) ==
    /\ mr.pc \in {"idle", "returned", "raised"}
    /\ nreq < MaxRequests
    /\ LET b == BeginRequest(store, now, method, endpoint, params, accept_raw,
                             use_cache_arg, fault)
       IN  /\ mr' = b.frame
           /\ store' = b.store
    /\ nreq' = nreq + 1
    /\ UNCHANGED <<now, use_cache, blob_service_client, cacheVars, listingVars, ag,
                   extractVars, queryVars>>

Attempt(kind, fault) ==
    /\ mr.pc = "loop"
    /\ mr.attempt < retries
    /\ LET a == AttemptStep(mr, store, now,
                            Outcome(mr.endpoint, mr.params, mr.accept_raw, kind), fault)
       IN  /\ mr' = a.frame
           /\ store' = a.store
           /\ now' = a.now
    /\ UNCHANGED <<use_cache, blob_service_client, cacheVars, nreq, listingVars, ag,
                   extractVars, queryVars>>

RaiseAfterRetries ==
    /\ mr.pc = "loop"
    /\ mr.attempt >= retries
    /\ mr' = RaiseStep(mr)
    /\ UNCHANGED <<now, use_cache, blob_service_client, store, cacheVars, nreq,
                   listingVars, ag,
                   extractVars, queryVars>>

\* time passes between two calls
RequestTick ==
    /\ mr.pc \in {"returned", "raised"}
    /\ nreq < MaxRequests
    /\ Tick

NextRequest ==
    \/ RequestTick
    \/ \E m \in Methods, e \in RequestEndpoints, p \in RequestParams,
          raw \in BOOLEAN, uc \in UseCacheArgs, f \in {"none", "exists"} :
          StartRequest(m, e, p, raw, uc, f)
    \/ \E k \in OutcomeKinds, f \in {"none", "upload"} : Attempt(k, f)
    \/ RaiseAfterRetries

SpecRequest == InitRequest /\ [][NextRequest]_vars

-----------------------------------------------------------------------------
(* Claims about make_request *)

RECURSIVE Count(_, _)
\* how many entries of the sequence h equal x
Count(h, x) ==
    IF h = <<>> THEN 0
    ELSE (IF Head(h) = x THEN 1 ELSE 0) + Count(Tail(h), x)

InRequest == mr.pc \in {"loop", "returned", "raised"}

\* the call returned what an HTTP response of a non-2xx status gave it
ReturnedNon2xx ==
    /\ mr.pc = "returned"
    /\ ~mr.from_cache
    /\ (mr.response.status < 200 \/ mr.response.status > 299)

\* the body of a response as-is: parsed, or the raw text when it is not JSON
ParsedOrRaw(resp) == IF resp.json # Invalid THEN resp.json ELSE resp.text

\* C4 as stated: a rate-limit wait does not consume one of the 3 retry slots:
\* the attempts used up are exactly those that ended in a transport failure.
C4_RateLimitWaitKeepsRetrySlot ==
    InRequest => mr.attempt = Count(mr.hist, "exception")

\* C5 as stated: at most 3 HTTP calls; a call that returns got a response in
\* its last attempt, and a call that fails had all 3 attempts end in an
\* exception and carries the cause of the last one.
C5_ThreeFailuresOrPayload ==
    InRequest =>
        /\ Len(mr.hist) <= retries
        /\ (mr.pc = "returned" /\ ~mr.from_cache
                => mr.hist[Len(mr.hist)] = "response")
        /\ (mr.pc = "raised"
                => /\ mr.hist = <<"exception", "exception", "exception">>
                   /\ mr.result[3] # None
                   /\ mr.result[3] = mr.last_exception)

\* C6 as stated: make_request raises only when every attempt of the call ended
\* in a transport exception.
C6_RaisesOnlyOnTransportFailure ==
    mr.pc = "raised" =>
        \A i \in DOMAIN mr.hist : mr.hist[i] = "exception"

RECURSIVE Slept(_)
\* the seconds slept in the sleeps of a call
Slept(sleeps) ==
    IF sleeps = <<>> THEN 0 ELSE Head(sleeps)[2] + Slept(Tail(sleeps))

\* a rate-limit refusal whose wait is not positive, or 60 s or more
Capped(resp) ==
    /\ resp.status = 403
    /\ resp.remaining # None
    /\ resp.remaining[2] = 0
    /\ (resp.reset_in <= 0 \/ resp.reset_in >= 60)

\* the call returned on a response whose rate-limit wait is capped
ReturnedCapped ==
    /\ mr.pc = "returned"
    /\ ~mr.from_cache
    /\ Capped(mr.response)

\* C24: every rate-limit sleep of make_request is for a wait that is positive
\* and below 60 s and lasts less than 61 s; a refusal whose wait is not
\* positive or is 60 s or more is not slept on: the pass that received it
\* sleeps nothing, takes no time, and is accounted as any pass that receives a
\* response (the call returns on it what it returns for a response)
C24_RateLimitWaitsAreCapped ==
    InRequest =>
        /\ \A i \in DOMAIN mr.sleeps :
               mr.sleeps[i][1] = "rate_limit" =>
                   /\ mr.sleeps[i][2] - 1 > 0
                   /\ mr.sleeps[i][2] - 1 < 60
                   /\ mr.sleeps[i][2] < 61
        /\ ReturnedCapped =>
               /\ mr.hist[Len(mr.hist)] = "response"
               /\ Len(mr.sleeps) = Len(mr.hist) - 1
               /\ mr.attempt = Len(mr.hist) - 1
               /\ mr.returned_at = mr.called_at + Slept(mr.sleeps)
               /\ mr.result = ResponseResult(mr.response, mr.accept_raw, mr.cache_eligible)

\* a call slept on a refusal with a wait of 30 s and returned at once on one
\* with a wait of 60 s
C24_Witness ==
    /\ ReturnedCapped
    /\ mr.response.reset_in = 60
    /\ mr.sleeps = <<<<"rate_limit", 31>>>>

\* the step left every entry but that of the requested key as it was
OnlyRequestedKeyChanged ==
    LET k == CacheKey(mr'.endpoint)
    IN  /\ DOMAIN store \ {k} = DOMAIN store' \ {k}
        /\ \A x \in DOMAIN store \ {k} : store'[x] = store[x]

\* the step is the return of a cache-eligible GET on a 200 response
ReturnsOk200 ==
    /\ mr'.pc = "returned"
    /\ ~mr'.from_cache
    /\ mr'.method \in {"GET", "get"}
    /\ mr'.cache_eligible
    /\ mr'.response.status = 200

\* the step is the cache read of a cache-eligible GET that found the entry of
\* the requested key expired and deleted it
DeletesExpired ==
    LET k == CacheKey(mr'.endpoint)
    IN  /\ mr'.method \in {"GET", "get"}
        /\ mr'.cache_eligible
        /\ mr'.hist = <<>>
        /\ HasEntry(store, k)
        /\ ExpiresAt(store, k) <= now
        /\ k \notin DOMAIN store'

\* C32: a step of make_request that changes the cache is the return of a
\* cache-eligible GET on a 200 response, or the deletion of the expired entry
\* of the requested key by the cache read of a cache-eligible GET; it changes
\* no entry but that of the requested key.  Non-GET requests, requests with
\* caching off, non-200 responses and failing calls change nothing.
C32_CacheChangesOnlyOnOk200 ==
    [][store' # store => (OnlyRequestedKeyChanged /\ (ReturnsOk200 \/ DeletesExpired))]_vars

\* a POST answered 200 left the entry an earlier GET had stored as it was
C32_Witness ==
    /\ nreq = 2
    /\ mr.pc = "returned"
    /\ mr.method = "POST"
    /\ mr.hist = <<"response">>
    /\ mr.response.status = 200
    /\ mr.entry_at_call # None
    /\ store[CacheKey(mr.endpoint)] = mr.entry_at_call

\* the backoff sleeps of the call, in order
BackoffSleeps == SelectSeq(mr.sleeps, LAMBDA x : x[1] = "backoff")

\* all three attempts of the call failed with a transport exception
AllAttemptsFailed ==
    /\ mr.pc = "raised"
    /\ mr.hist = <<"exception", "exception", "exception">>

\* C29: the backoff sleeps of a call are 1 s, 2 s, ... in order, whatever
\* rate-limit waits lie between them, and a call whose three attempts all
\* failed with a transport exception slept 1 s and 2 s and did not sleep
\* after the last attempt
C29_BackoffOneTwoAndNoneAfterLast ==
    InRequest =>
        /\ \A i \in DOMAIN BackoffSleeps : BackoffSleeps[i][2] = 2 ^ (i - 1)
        /\ AllAttemptsFailed => mr.sleeps = <<<<"backoff", 1>>, <<"backoff", 2>>>>

-----------------------------------------------------------------------------
(* Repository Aggregator, listing: GitHubClient.get_user_repos *)

\* a whole make_request call, the HTTP call of its n-th pass ending as
\* script[n]; gfault and pfault are the store faults of its cache read and
\* cache write
RECURSIVE RunAttempts(_, _, _, _, _)
RunAttempts(f, st, t, script, pfault) ==
    IF f.pc # "loop" THEN [frame |-> f, store |-> st, now |-> t]
    ELSE IF f.attempt >= retries \/ Len(f.hist) >= Len(script)
    THEN [frame |-> RaiseStep(f), store |-> st, now |-> t]
    ELSE Bind(AttemptStep(f, st, t,
                          Outcome(f.endpoint, f.params, f.accept_raw,
                                  script[Len(f.hist) + 1]),
                          pfault),
              LAMBDA a : RunAttempts(a.frame, a.store, a.now, script, pfault))

MakeRequest(st, t, method, endpoint, params, accept_raw, uc, script, gfault, pfault) ==
    Bind(BeginRequest(st, t, method, endpoint, params, accept_raw, uc, gfault),
         LAMBDA b : RunAttempts(b.frame, b.store, b.now, script, pfault))

\* f"users_{username}_repos_full"
ReposFullKey(username) == <<"users", "_", username, "_", "repos", "_", "full">>

\* `ttl=7200`, line 259
FullListingTtl == 7200

\* lines 218-233: the call up to the pagination loop
BeginListing(st, t, username, per_page, fault) ==
    LET g == GetFromCache(st, ReposFullKey(username), t, fault)
        f == [pc |-> "loop", username |-> username, per_page |-> per_page,
              all_repos |-> <<>>, page |-> 1, result |-> None,
              cached |-> FALSE, hits |-> 0, raised |-> FALSE,
              trouble |-> FALSE, wrote |-> FALSE, stop |-> "none"]
    IN  [frame |-> IF g.value # None
                   THEN [f EXCEPT !.pc = "done", !.result = g.value,
                                  !.cached = TRUE]
                   ELSE f,
         store |-> g.store]

\* lines 235-255: one pass of the pagination loop, r being the outcome of its
\* make_request call
PageStep(f, r) ==
    LET repos == r.frame.result
        g == [f EXCEPT !.hits = @ + (IF r.frame.pc = "returned"
                                        /\ r.frame.from_cache THEN 1 ELSE 0),
                       !.raised = @ \/ r.frame.pc = "raised",
                       !.trouble = \/ @
                                   \/ r.frame.pc = "raised"
                                   \/ r.frame.sleeps # <<>>
                                   \/ (r.frame.pc = "returned"
                                       /\ ~r.frame.from_cache
                                       /\ r.frame.response.status # 200)]
    IN  IF r.frame.pc = "raised"
        THEN [g EXCEPT !.pc = "finish", !.stop = "raised"]
        ELSE IF ~Truthy(repos) \/ repos[1] # "list"
        THEN [g EXCEPT !.pc = "finish",
                       !.stop = IF repos[1] = "list" THEN "empty" ELSE "payload"]
        ELSE IF Len(repos[2]) < f.per_page
        THEN [g EXCEPT !.pc = "finish", !.all_repos = @ \o repos[2],
                       !.stop = "short"]
        ELSE [g EXCEPT !.all_repos = @ \o repos[2], !.page = @ + 1]

\* a mutant of FinishListing: the listing is cached empty or not
FinishListingAlways(f, st, t, fault) ==
    LET s == SaveToCache(st, ReposFullKey(f.username), List(f.all_repos),
                         FullListingTtl, t, fault)
    IN  [frame |-> [f EXCEPT !.pc = "done", !.result = List(f.all_repos),
                             !.wrote = s.value],
         store |-> s.store]

\* lines 257-261: the listing is cached when it is not empty, and returned
FinishListing(f, st, t, fault) ==
    LET s == IF f.all_repos # <<>>
             THEN SaveToCache(st, ReposFullKey(f.username), List(f.all_repos),
                              FullListingTtl, t, fault)
             ELSE [value |-> FALSE, store |-> st]
    IN  [frame |-> [f EXCEPT !.pc = "done", !.result = List(f.all_repos),
                             !.wrote = s.value],
         store |-> s.store]

-----------------------------------------------------------------------------
(* get_user_repos driven directly, one page at a time *)

\* a repository of the listing endpoint (a RepositorySummary); B has no
\* description (null) and no topics
Repo(name, updated_at, fork, owner, parent) ==
    [name |-> name, updated_at |-> updated_at, fork |-> fork,
     owner |-> owner, parent |-> parent,
     description |-> IF name = "B" THEN None ELSE Str(<<"about", " ", name>>),
     language |-> IF name = "A" THEN Str(<<"Go">>) ELSE None,
     topics |-> IF name = "B" THEN List(<<>>) ELSE List(<<"api", "cli">>)]

RepoNames == <<"A", "B", "C", "D", "E", "F", "G", "H">>

\* the first n repositories of a user whose repositories are all their own
OwnRepos(n) == [i \in 1..n |-> Repo(RepoNames[i], 100 - i, FALSE, "u", None)]

ListingKinds == {"timeout", "ok", "not_found"}

ListingScripts == [1..retries -> ListingKinds]

InitListing ==
    /\ now = 0
    /\ InitClient
    /\ store = <<>>
    /\ ret = NoCall
    /\ rd = [pc |-> "idle"]
    /\ md = [pc |-> "idle"]
    /\ rs = [pc |-> "idle"]
    /\ gc = [pc |-> "idle"]
    /\ pq = [pc |-> "idle"]
    /\ lastPut = <<>>
    /\ mr = [pc |-> "idle"]
    /\ nreq = 0
    /\ upstream \in {OwnRepos(n) : n \in 0..MaxRepos}
    /\ ls = [pc |-> "idle"]
    /\ ag = [pc |-> "idle"]

ListStart(username, per_page, fault) ==
    /\ ls.pc = "idle"
    /\ LET b == BeginListing(store, now, username, per_page, fault)
       IN  /\ ls' = b.frame
           /\ store' = b.store
    /\ UNCHANGED <<now, use_cache, blob_service_client, cacheVars, requestVars,
                   upstream, ag,
                   extractVars, queryVars>>

FetchPage(script, gfault, pfault) ==
    /\ ls.pc = "loop"
    /\ ls.page <= MaxPages
    /\ \E r \in {MakeRequest(store, now, "GET", ReposEndpoint(ls.username),
                            Params(ls.per_page, ls.page), FALSE, "default",
                            script, gfault, pfault)} :
           /\ ls' = PageStep(ls, r)
           /\ store' = r.store
           /\ now' = r.now
    /\ UNCHANGED <<use_cache, blob_service_client, cacheVars, requestVars,
                   upstream, ag,
                   extractVars, queryVars>>

ListFinish(fault) ==
    /\ ls.pc = "finish"
    /\ LET r == FinishListing(ls, store, now, fault)
       IN  /\ ls' = r.frame
           /\ store' = r.store
    /\ UNCHANGED <<now, use_cache, blob_service_client, cacheVars, requestVars,
                   upstream, ag,
                   extractVars, queryVars>>

NextListing ==
    \/ Tick
    \/ \E f \in {"none", "exists"} : ListStart("u", PerPage, f)
    \/ \E sc \in ListingScripts, gf \in {"none", "exists"},
          pf \in {"none", "upload"} : FetchPage(sc, gf, pf)
    \/ \E f \in {"none", "upload"} : ListFinish(f)

SpecListing == InitListing /\ [][NextListing]_vars

-----------------------------------------------------------------------------
(* make_request called for the pages of a listing, as JSON and raw *)

PageParams == {Params(PerPage, 1), Params(PerPage, 2)}

\* the outcomes with status 200, the only ones make_request caches
OkKinds == {"ok", "ok_text"}

NextPages ==
    \/ RequestTick
    \/ \E p \in PageParams, raw \in BOOLEAN, uc \in {"default", "no"} :
          StartRequest("GET", ReposEndpoint("u"), p, raw, uc, "none")
    \/ \E k \in OkKinds \cup {"not_found"} : Attempt(k, "none")

SpecPages == InitListing /\ [][NextPages]_vars

\* what make_request returns for the 200 answers the upstream can give to the
\* request of the frame f
AnswersTo(f) ==
    {ResponseResult(Outcome(f.endpoint, f.params, f.accept_raw, k), f.accept_raw, TRUE) : k \in OkKinds}

\* C27: a payload that make_request returns from the cache is an answer to a
\* request with the endpoint, the params and the raw/JSON mode of the current
\* one
C27_CachedPayloadIsOfTheSameRequest ==
    (mr.pc = "returned" /\ mr.from_cache) => mr.result \in AnswersTo(mr)

-----------------------------------------------------------------------------
(* Claims about get_user_repos *)

\* the call fetched the listing itself and has returned
ListingReturned == ls.pc = "done" /\ ~ls.cached

\* the collection-level entry users_{username}_repos_full as stored
FullEntry == JsonLoads(store[CacheKey(ReposFullKey(ls.username))])

\* C3 as stated: with the collection-level entry absent and every page request
\* that reaches the upstream answered 200 with its page, get_user_repos
\* returns exactly the concatenation of the pages in page order, whether
\* per-request caching is enabled or disabled.
C3_ListingIsConcatenationOfPages ==
    (ListingReturned /\ ~ls.trouble) => ls.result = List(upstream)

\* C10 as stated, for the calls in which no page was answered from the
\* per-request cache: when get_user_repos writes users_{username}_repos_full,
\* the stored value is the complete stitched listing, with a 2-hour TTL; a
\* listing cut short by a failed page fetch is not stored.
C10_OnlyCompleteListingIsStored ==
    (ListingReturned /\ ls.wrote /\ ls.hits = 0) =>
        /\ FullEntry.data = List(upstream)
        /\ FromIsoFormat(FullEntry.expires_at)
               = FromIsoFormat(FullEntry.cached_at) + 7200

\* the upstream's pages 1..k of the listing, stitched
PagesUpTo(k) == SubSeq(upstream, 1, Min(k * ls.per_page, Len(upstream)))

\* the call fetched the listing itself and stopped on a page-fetch error: the
\* request of page ls.page raised, or gave a payload that is not a list
StoppedOnError == ListingReturned /\ ls.stop \in {"raised", "payload"}

\* C11 as stated: when the fetch of page k raises or returns a non-list
\* payload, get_user_repos stops and returns, as a normal result, the items
\* of pages 1..k-1 in order.
C11_PartialListingOnPageError ==
    StoppedOnError => ls.result = List(PagesUpTo(ls.page - 1))

\* the page requests the call has issued: make_request calls of its loop
PageRequests == IF ls.pc = "loop" THEN ls.page - 1 ELSE ls.page

\* C26: a get_user_repos call that fetches the listing itself issues at most
\* floor(N / per_page) + 1 page requests for an upstream of N repositories,
\* with per-request caching on or off
C26_PageRequestsAreBounded ==
    (ls.pc \in {"loop", "finish", "done"} /\ ~ls.cached) =>
        PageRequests <= (Len(upstream) \div ls.per_page) + 1

-----------------------------------------------------------------------------
(* README Section Parser: GitHubClient.extract_readme_sections *)

Space == {" ", "\n"}

RECURSIVE LStrip(_)
LStrip(d) == IF d # <<>> /\ Head(d) \in Space THEN LStrip(Tail(d)) ELSE d

RECURSIVE RStrip(_)
RStrip(d) ==
    IF d # <<>> /\ d[Len(d)] \in Space THEN RStrip(SubSeq(d, 1, Len(d) - 1))
    ELSE d

\* str.strip()
Strip(d) == RStrip(LStrip(d))

\* lines 281-287: the heading of each section and the key it is filed under
section_patterns ==
    << <<"Technology Signature", "tech_stack">>,
       <<"Demonstrated Competencies", "skills">>,
       <<"System Architecture", "architecture">>,
       <<"Project Structure", "structure">>,
       <<"Deployment Workflow", "workflow">> >>

\* `## {title}\s` matches the document d at position i
HeadingAt(d, i, title) ==
    /\ i + 4 <= Len(d)
    /\ d[i] = "#"
    /\ d[i + 1] = "#"
    /\ d[i + 2] = " "
    /\ d[i + 3] = title
    /\ d[i + 4] \in Space

\* a mutant of SectionSearch: the group runs to the end of the document
SectionSearchToEnd(d, title) ==
    LET starts == {i \in 1..Len(d) : HeadingAt(d, i, title)}
    IN  IF starts = {} THEN None
        ELSE LET i == CHOOSE x \in starts : \A y \in starts : x <= y
             IN  Str(LStrip(SubSeq(d, i + 4, Len(d))))

\* re.search(r"## {title}\s+(.*?)(?=##|\Z)", d, re.DOTALL): group 1 of the
\* leftmost match, or None.  `\s+` takes the whole run of white space, and
\* the lazy group ends before the first `##` that follows, or at the end.
SectionSearch(d, title) ==
    LET starts == {i \in 1..Len(d) : HeadingAt(d, i, title)}
    IN  IF starts = {} THEN None
        ELSE LET i == CHOOSE x \in starts : \A y \in starts : x <= y
                 body == LStrip(SubSeq(d, i + 4, Len(d)))
                 stops == {k \in 1..(Len(body) - 1) :
                              body[k] = "#" /\ body[k + 1] = "#"}
                 stop == IF stops = {} THEN Len(body) + 1
                         ELSE CHOOSE x \in stops : \A y \in stops : x <= y
             IN  Str(SubSeq(body, 1, stop - 1))

\* lines 272-295
extract_readme_sections(readme_content) ==
    IF ~Truthy(readme_content) THEN Dict(<<>>)
    ELSE LET found == [n \in 1..Len(section_patterns) |->
                          <<section_patterns[n][2],
                            SectionSearch(readme_content[2],
                                          section_patterns[n][1])>>]
             matched == SelectSeq(found, LAMBDA p : p[2] # None)
         IN  Dict([n \in 1..Len(matched) |->
                      <<matched[n][1], Str(Strip(matched[n][2][2]))>>])

-----------------------------------------------------------------------------
(* Repository Aggregator: GitHubClient.get_processed_repos *)

\* the same script for every pass of a request's retry loop
Uniform(kind) == [n \in 1..retries |-> kind]

\* lines 315-324; the repository and the path are never empty here
get_file_content(st, t, username, repo, path, script) ==
    MakeRequest(st, t, "GET", ContentsEndpoint(username, repo, path), None,
                TRUE, "default", script, "none", "none")

\* lines 326-366: the three special files, one request each; scripts[n] is
\* the script of the n-th request.  Gives the metadata, the store, the clock.
extract_repo_metadata(st, t, repo_name, username, scripts) ==
    LET context(c) ==
            IF /\ c.frame.pc = "returned"
               /\ Truthy(c.frame.result)
               /\ JsonLoadsText(c.frame.result) # Invalid
            THEN << <<"context", JsonLoadsText(c.frame.result)>> >>
            ELSE <<>>
        manifest(m) ==
            IF m.frame.pc = "returned" /\ Truthy(m.frame.result)
            THEN << <<"manifest", m.frame.result>> >>
            ELSE <<>>
        skills(k) ==
            IF k.frame.pc = "returned" /\ Truthy(k.frame.result)
            THEN << <<"skills", k.frame.result>> >>
            ELSE <<>>
    IN  Bind(get_file_content(st, t, username, repo_name,
                              ".repo-context.json", scripts[1]),
        LAMBDA c :
        Bind(get_file_content(c.store, c.now, username, repo_name,
                              "PROJECT-MANIFEST.md", scripts[2]),
        LAMBDA m :
        Bind(get_file_content(m.store, m.now, username, repo_name,
                              "SKILLS-INDEX.md", scripts[3]),
        LAMBDA k :
            [value |-> Dict(context(c) \o manifest(m) \o skills(k)),
             store |-> k.store,
             now   |-> k.now,
             fetched |-> <<c.frame, m.frame, k.frame>>])))

\* `per_page=100`, line 218
DefaultPerPage == 100

\* `readme_content[:1000]`, line 411
ExcerptLen == 1000

\* `ttl=7200`, line 428
ProcessedTtl == 7200

\* f"processed_repos_{username}"
ProcessedKey(username) == <<"processed", "_", "repos", "_", username>>

\* list(languages.keys())
Keys(d) == [n \in 1..Len(d[2]) |-> d[2][n][1]]

\* a mutant of InsertByUpdatedAt: the sort without reverse=True
InsertByUpdatedAtAscending(sorted, x) ==
    LET k == Cardinality({n \in 1..Len(sorted) :
                             sorted[n].updated_at <= x.updated_at})
    IN  SubSeq(sorted, 1, k) \o <<x>> \o SubSeq(sorted, k + 1, Len(sorted))

\* a mutant of InsertByUpdatedAt: x goes in front of its equals
InsertByUpdatedAtBeforeEquals(sorted, x) ==
    LET k == Cardinality({n \in 1..Len(sorted) :
                             sorted[n].updated_at > x.updated_at})
    IN  SubSeq(sorted, 1, k) \o <<x>> \o SubSeq(sorted, k + 1, Len(sorted))

\* x put into a list sorted by updated_at descending, behind its equals
InsertByUpdatedAt(sorted, x) ==
    LET k == Cardinality({n \in 1..Len(sorted) :
                             sorted[n].updated_at >= x.updated_at})
    IN  SubSeq(sorted, 1, k) \o <<x>> \o SubSeq(sorted, k + 1, Len(sorted))

\* line 424: list.sort(key=updated_at, reverse=True), a stable sort
RECURSIVE SortByUpdatedAt(_)
SortByUpdatedAt(repos) ==
    IF repos = <<>> THEN <<>>
    ELSE InsertByUpdatedAt(SortByUpdatedAt(SubSeq(repos, 1, Len(repos) - 1)),
                           repos[Len(repos)])

\* lines 399-412: the record of a repository.  Of the fields of repo_info,
\* stars and url are copies of the listing's fields, as description,
\* language, topics and updated_at are.
RepoInfo(repo, languages, readme_content, readme_sections, metadata) ==
    [name |-> repo.name,
     description |-> repo.description,
     language |-> repo.language,
     topics |-> repo.topics,
     languages |-> IF Truthy(languages) THEN List(Keys(languages))
                   ELSE List(<<>>),
     updated_at |-> repo.updated_at,
     is_fork |-> repo.fork,
     readme_excerpt |->
         IF Truthy(readme_content)
         THEN Str(SubSeq(readme_content[2], 1,
                         Min(ExcerptLen, Len(readme_content[2]))))
         ELSE Str(<<>>),
     readme_sections |-> readme_sections,
     metadata |-> metadata]

\* lines 385-417: the body of the loop for one repository of the listing; sc
\* gives the scripts of its requests.  threw: an exception reached the
\* handler of line 419 (a request that raised, or languages.keys() of a
\* languages payload that is not a dict).
ProcessRepo(st, t, username, repo, sc) ==
    LET thrown(w) ==
            [threw |-> TRUE, repo_info |-> None, store |-> w.store, now |-> w.now]
    IN  Bind(MakeRequest(st, t, "GET", LanguagesEndpoint(username, repo.name),
                         None, FALSE, "default", sc.languages, "none", "none"),
        LAMBDA l :
        IF l.frame.pc = "raised" THEN thrown(l)
        ELSE
        Bind(MakeRequest(l.store, l.now, "GET",
                         ReadmeEndpoint(username, repo.name),
                         None, TRUE, "default", sc.readme, "none", "none"),
        LAMBDA r :
        IF r.frame.pc = "raised" THEN thrown(r)
        ELSE
        Bind(extract_repo_metadata(r.store, r.now, repo.name, username, sc.files),
        LAMBDA m :
        IF Truthy(l.frame.result) /\ l.frame.result[1] # "dict" THEN thrown(m)
        ELSE [threw |-> FALSE,
              repo_info |->
                  RepoInfo(repo, l.frame.result, r.frame.result,
                           IF Truthy(r.frame.result)
                           THEN extract_readme_sections(r.frame.result)
                           ELSE Dict(<<>>),
                           m.value),
              store |-> m.store,
              now |-> m.now])))

\* lines 368-380: the call up to the listing
BeginProcessed(st, t, username, fault) ==
    LET g == GetFromCache(st, ProcessedKey(username), t, fault)
        f == [pc |-> "listing", username |-> username, n |-> 1,
              processed_repos |-> <<>>, threw |-> {}, result |-> None,
              cached |-> FALSE, wrote |-> FALSE, cache_fault |-> fault,
              called_at |-> t,
              entry_at_call |->
                  IF CacheKey(ProcessedKey(username)) \in DOMAIN st
                  THEN st[CacheKey(ProcessedKey(username))] ELSE None]
    IN  [frame |-> IF g.value # None
                   THEN [f EXCEPT !.pc = "done", !.result = g.value,
                                  !.cached = TRUE]
                   ELSE f,
         store |-> g.store]

\* lines 384-421: one pass of the loop, p being what its body came to; a
\* repository whose processing threw is logged and left out
RepoStep(f, repo, p) ==
    IF p.threw
    THEN [f EXCEPT !.n = @ + 1, !.threw = @ \cup {repo.name}]
    ELSE [f EXCEPT !.n = @ + 1,
                   !.processed_repos = Append(@, p.repo_info)]

\* lines 423-430: the records are sorted, cached when there are any, returned
FinishProcessed(f, st, t, fault) ==
    LET sorted == SortByUpdatedAt(f.processed_repos)
        s == IF sorted # <<>>
             THEN SaveToCache(st, ProcessedKey(f.username), List(sorted),
                              ProcessedTtl, t, fault)
             ELSE [value |-> FALSE, store |-> st]
    IN  [frame |-> [f EXCEPT !.pc = "done", !.result = List(sorted),
                             !.processed_repos = sorted, !.wrote = s.value],
         store |-> s.store]

-----------------------------------------------------------------------------
(* get_processed_repos driven directly, one repository at a time *)

\* a user's repositories: one of them a fork of their own, two of them
\* updated at the same time
Catalog ==
    << Repo("A", 3, FALSE, "u", None),
       Repo("B", 5, TRUE, "u", Str(<<"up", "/", "B">>)),
       Repo("C", 5, FALSE, "u", None) >>

LanguagesKinds == {"ok", "not_found", "timeout", "ok_text"}

ReadmeKinds == {"ok", "not_found", "timeout"}

FilesKinds ==
    { <<"ok", "ok", "ok">>,
      <<"not_found", "not_found", "not_found">>,
      <<"ok_text", "timeout", "ok">> }

RepoScripts ==
    { [languages |-> Uniform(lk), readme |-> Uniform(rk),
       files |-> <<Uniform(fk[1]), Uniform(fk[2]), Uniform(fk[3])>>] :
        lk \in LanguagesKinds, rk \in ReadmeKinds, fk \in FilesKinds }

\* every request of a repository answered 200
OkScripts ==
    [languages |-> Uniform("ok"), readme |-> Uniform("ok"),
     files |-> <<Uniform("ok"), Uniform("ok"), Uniform("ok")>>]

\* the loop of lines 384-421 over the listing, every request answered 200
RECURSIVE ProcessAllOk(_, _, _, _)
ProcessAllOk(f, st, t, repos) ==
    IF f.n > Len(repos) THEN [frame |-> f, store |-> st, now |-> t]
    ELSE Bind(ProcessRepo(st, t, f.username, repos[f.n], OkScripts),
              LAMBDA p : ProcessAllOk(RepoStep(f, repos[f.n], p),
                                      p.store, p.now, repos))

\* the store an earlier call of get_processed_repos(username) leaves behind,
\* made at time t on an empty store, every request answered 200
EarlierCallStore(username, t) ==
    Bind(BeginProcessed(<<>>, t, username, "none"), LAMBDA b :
    Bind(BeginListing(b.store, t, username, DefaultPerPage, "none"), LAMBDA l :
    Bind(MakeRequest(l.store, t, "GET", ReposEndpoint(username),
                     Params(DefaultPerPage, 1), FALSE, "default",
                     Uniform("ok"), "none", "none"), LAMBDA r :
    Bind(FinishListing(PageStep(l.frame, r), r.store, r.now, "none"), LAMBDA g :
    Bind(ProcessAllOk(b.frame, g.store, r.now, g.frame.result[2]), LAMBDA a :
        FinishProcessed(a.frame, a.store, a.now, "none").store)))))

InitAgg ==
    /\ now = 0
    /\ InitClient
    /\ upstream \in {<<>>, Catalog}
    /\ store \in {<<>>, EarlierCallStore("u", 0)}
    /\ ret = NoCall
    /\ rd = [pc |-> "idle"]
    /\ md = [pc |-> "idle"]
    /\ rs = [pc |-> "idle"]
    /\ gc = [pc |-> "idle"]
    /\ pq = [pc |-> "idle"]
    /\ lastPut = <<>>
    /\ mr = [pc |-> "idle"]
    /\ nreq = 0
    /\ ls = [pc |-> "idle"]
    /\ ag = [pc |-> "idle"]

\* get_processed_repos(username), up to the first page of the listing; fault
\* is the store fault of its read of the aggregated collection
AggCall(username, fault) ==
    /\ ag.pc = "idle"
    /\ LET b == BeginProcessed(store, now, username, fault)
           l == BeginListing(b.store, now, username, DefaultPerPage, "none")
       IN  /\ ag' = b.frame
           /\ IF b.frame.pc = "done"
              THEN store' = b.store /\ ls' = ls
              ELSE store' = l.store /\ ls' = l.frame
    /\ UNCHANGED <<now, use_cache, blob_service_client, cacheVars, requestVars,
                   upstream,
                   extractVars, queryVars>>

AggStart(username) == AggCall(username, "none")

AggFetchPage(kind) ==
    /\ ag.pc = "listing"
    /\ FetchPage(Uniform(kind), "none", "none")

AggListFinish ==
    /\ ag.pc = "listing"
    /\ ListFinish("none")

ProcessNext(sc) ==
    /\ ag.pc = "listing"
    /\ ls.pc = "done"
    /\ ag.n <= Len(ls.result[2])
    /\ \E p \in {ProcessRepo(store, now, ag.username, ls.result[2][ag.n], sc)} :
           /\ ag' = RepoStep(ag, ls.result[2][ag.n], p)
           /\ store' = p.store
           /\ now' = p.now
    /\ UNCHANGED <<use_cache, blob_service_client, cacheVars, requestVars,
                   listingVars,
                   extractVars, queryVars>>

AggFinish ==
    /\ ag.pc = "listing"
    /\ ls.pc = "done"
    /\ ag.n > Len(ls.result[2])
    /\ LET r == FinishProcessed(ag, store, now, "none")
       IN  /\ ag' = r.frame
           /\ store' = r.store
    /\ UNCHANGED <<now, use_cache, blob_service_client, cacheVars, requestVars,
                   listingVars,
                   extractVars, queryVars>>

NextAgg ==
    \/ AggStart("u")
    \/ \E k \in {"ok", "timeout"} : AggFetchPage(k)
    \/ AggListFinish
    \/ \E sc \in RepoScripts : ProcessNext(sc)
    \/ AggFinish

SpecAgg == InitAgg /\ [][NextAgg]_vars

-----------------------------------------------------------------------------
(* Claims about get_processed_repos *)

\* the call built the collection itself and has returned it
AggReturned == ag.pc = "done" /\ ~ag.cached

\* the listing the collection was built from
Listed == ls.result[2]

\* the listed repositories whose processing did not throw
Kept == SelectSeq(Listed, LAMBDA r : r.name \notin ag.threw)

\* C8: get_processed_repos isolates per-repository failures: the call returns,
\* and the returned collection holds a record of exactly the listed
\* repositories whose processing did not throw, sorted by updated_at
\* descending.
C8_FailuresAreIsolated ==
    AggReturned =>
        LET got == ag.result[2]
        IN  /\ Len(got) = Len(Kept)
            /\ \A m \in 1..Len(Kept) :
                   \E n \in 1..Len(got) :
                       /\ got[n].name = Kept[m].name
                       /\ got[n].updated_at = Kept[m].updated_at
            /\ \A a, b \in 1..Len(got) :
                   a < b => got[a].updated_at >= got[b].updated_at

\* B's processing threw, A's and C's did not: the records of C and A came back
C8_Witness ==
    /\ AggReturned
    /\ Len(Listed) = 3
    /\ ag.threw = {"B"}
    /\ Len(ag.result[2]) = 2
    /\ ag.result[2][1].name = "C"
    /\ ag.result[2][2].name = "A"

\* the listing's record of the repository of a record of the collection
ListedAs(info) == CHOOSE r \in {Listed[n] : n \in 1..Len(Listed)} : r.name = info.name

\* the fork provenance a record carries inside its metadata
Provenance(info) ==
    {info.metadata[2][n][2] : n \in {x \in 1..Len(info.metadata[2]) :
                                        info.metadata[2][x][1] = "repo_context"}}

\* C9 as stated: no record of the returned collection is a fork owned by
\* someone other than the queried username, and the metadata of every fork
\* record carries the full name of the fork's parent.
C9_ForksFilteredWithProvenance ==
    AggReturned =>
        \A n \in 1..Len(ag.result[2]) :
            LET info == ag.result[2][n]
            IN  info.is_fork =>
                    /\ ListedAs(info).owner = ag.username
                    /\ ListedAs(info).parent \in Provenance(info)

-----------------------------------------------------------------------------
(* A session of one client: make_request calls and a get_processed_repos    *)
(* call, one after the other, on a store an earlier call may have filled,   *)
(* while the clock moves                                                    *)

SessionEndpoints == {LanguagesEndpoint("u", "A")}

\* the languages request of every repository times out
TimeoutScripts ==
    [languages |-> Uniform("timeout"), readme |-> Uniform("ok"),
     files |-> <<Uniform("ok"), Uniform("ok"), Uniform("ok")>>]

SessionRequest(method, endpoint, use_cache_arg, fault) ==
    /\ ag.pc \in {"idle", "done"}
    /\ StartRequest(method, endpoint, None, FALSE, use_cache_arg, fault)

SessionAggCall(fault) ==
    /\ mr.pc # "loop"
    /\ AggCall("u", fault)

NextSession ==
    \/ Tick
    \/ \E m \in {"GET", "POST"}, e \in SessionEndpoints,
          uc \in {"default", "no"}, f \in {"none", "exists"} :
          SessionRequest(m, e, uc, f)
    \/ \E k \in {"ok", "timeout"} : Attempt(k, "none")
    \/ RaiseAfterRetries
    \/ \E f \in {"none", "download"} : SessionAggCall(f)
    \/ \E k \in {"ok", "timeout"} : AggFetchPage(k)
    \/ AggListFinish
    \/ \E sc \in {OkScripts, TimeoutScripts} : ProcessNext(sc)
    \/ AggFinish

SpecSession == InitAgg /\ [][NextSession]_vars

-----------------------------------------------------------------------------
(* Claims about cache hits *)

\* the blob is a cache entry that has not expired at time t
ValidBlob(blob, t) ==
    /\ blob # None
    /\ IsJson(blob)
    /\ FromIsoFormat(JsonLoads(blob).expires_at) > t

\* a cache-eligible make_request call with the cache enabled, made when a
\* valid entry was stored under the key of its endpoint
RequestOnValidEntry ==
    /\ mr.pc \in {"loop", "returned", "raised"}
    /\ mr.cache_eligible
    /\ ~CacheDisabled
    /\ ValidBlob(mr.entry_at_call, mr.called_at)

\* a get_processed_repos call with the cache enabled, made when a valid
\* aggregated collection was stored
AggCallOnValidEntry ==
    /\ ag.pc \in {"listing", "done"}
    /\ ~CacheDisabled
    /\ ValidBlob(ag.entry_at_call, ag.called_at)

\* the call returned the payload of the entry, with no HTTP call
AnsweredFromCache ==
    /\ mr.pc = "returned"
    /\ mr.from_cache
    /\ mr.hist = <<>>
    /\ mr.result = JsonLoads(mr.entry_at_call).data

\* the call returned the stored collection; no listing was fetched and no
\* repository processed
AggAnsweredFromCache ==
    /\ ag.pc = "done"
    /\ ag.cached
    /\ ls.pc = "idle"
    /\ ag.n = 1
    /\ ag.result = JsonLoads(ag.entry_at_call).data

\* C12 as stated: for a GET with caching enabled, when a valid entry exists
\* for the request, make_request returns the cached payload with no HTTP
\* call; and get_processed_repos returns a valid aggregated collection
\* without fetching the listing or any per-repository data.
C12_ValidEntryIsReturned ==
    /\ RequestOnValidEntry => AnsweredFromCache
    /\ AggCallOnValidEntry => AggAnsweredFromCache

\* C12 as amended: the same, when no call on the blob store raises during
\* the cache read
C12_ValidEntryReadIsReturned ==
    /\ (RequestOnValidEntry /\ mr.cache_fault \notin {"exists", "download"})
           => AnsweredFromCache
    /\ (AggCallOnValidEntry /\ ag.cache_fault \notin {"exists", "download"})
           => AggAnsweredFromCache

\* a GET was answered from the cache with no HTTP call, and so was a
\* get_processed_repos call, with no listing fetched
C12_Witness ==
    /\ RequestOnValidEntry
    /\ AnsweredFromCache
    /\ mr.result = LanguagesOf("A")
    /\ AggCallOnValidEntry
    /\ AggAnsweredFromCache
    /\ Len(ag.result[2]) = 3

\* a cache-eligible GET returned what a response of a success status gave it
ReturnedSuccess ==
    /\ mr.pc = "returned"
    /\ ~mr.from_cache
    /\ mr.cache_eligible
    /\ mr.response.status \in 200..299

\* the store holds the payload the call returned, under the key of its
\* endpoint, until the default TTL after the return
ResultIsStored ==
    /\ HasEntry(store, CacheKey(mr.endpoint))
    /\ JsonLoads(store[CacheKey(mr.endpoint)]).data = mr.result
    /\ ExpiresAt(store, CacheKey(mr.endpoint)) = mr.returned_at + 3600

\* C13 as stated: a cache-eligible GET that received a 2xx response has
\* stored the payload it returns under the request's key with the default
\* TTL, and an identical request made before that TTL elapses is a cache hit.
C13_SuccessIsStored ==
    /\ ReturnedSuccess => ResultIsStored
    /\ RequestOnValidEntry => AnsweredFromCache

\* C13 as amended: the same for a 200 response, when the cache is available
\* and no call on the blob store raises
C13_OkIsStoredInHealthyCache ==
    /\ (/\ ReturnedSuccess
        /\ mr.response.status = 200
        /\ ~CacheDisabled
        /\ mr.save_fault = "none") => ResultIsStored
    /\ (RequestOnValidEntry /\ mr.cache_fault \notin {"exists", "download"})
           => AnsweredFromCache

\* the second of two identical requests was answered from the cache, with
\* the payload the first one stored
C13_Witness ==
    /\ nreq = 2
    /\ RequestOnValidEntry
    /\ AnsweredFromCache
    /\ mr.result = UpstreamJson(mr.endpoint, mr.params)
    /\ ExpiresAt(store, CacheKey(mr.endpoint)) > now

\* the language names a 2xx languages response gives for the repository, in
\* the order of the response
LanguageNames(name) == Keys(LanguagesOf(name))

\* C31: the languages of every record of the collection get_processed_repos
\* returns are language names of a 2xx languages response for the record's
\* repository, in the order of the response: all of them, or none when there
\* was no such response; no key of an error body is among them
C31_LanguagesComeFromSuccessfulResponses ==
    AggReturned =>
        \A n \in 1..Len(ag.result[2]) :
            LET info == ag.result[2][n]
            IN  /\ info.languages \in {List(<<>>), List(LanguageNames(info.name))}
                /\ \A k \in 1..Len(info.languages[2]) : info.languages[2][k] # "message"

\* the aggregated collection as stored under processed_repos_{username}
ProcessedEntry == JsonLoads(store[CacheKey(ProcessedKey(ag.username))])

\* C30: when get_processed_repos has written the aggregated collection to the
\* cache, the stored collection has a record for every repository of the
\* listing it was built from, and is kept for 2 hours
C30_StoredCollectionCoversTheListing ==
    (AggReturned /\ ag.wrote) =>
        /\ \A n \in 1..Len(Listed) :
               \E k \in 1..Len(ProcessedEntry.data[2]) :
                   ProcessedEntry.data[2][k].name = Listed[n].name
        /\ FromIsoFormat(ProcessedEntry.expires_at)
               = FromIsoFormat(ProcessedEntry.cached_at) + 7200

-----------------------------------------------------------------------------
(* The cache over a store that fails and holds entries nobody wrote whole *)

\* the three keys the operations read: a request's, get_user_repos's and
\* get_processed_repos's
FaultyEndpoints == {LanguagesEndpoint("u", "A"), ReposFullKey("u"), ProcessedKey("u")}

\* blobs _save_to_cache never writes: bytes that are no JSON, an envelope
\* without expires_at, one whose expires_at is no timestamp, one without data
NotJson == <<"bytes">>

NoExpiry == JsonDumps([data |-> Str(<<"x">>), cached_at |-> IsoFormat(0)])

BadExpiry == JsonDumps([data |-> Str(<<"x">>), expires_at |-> <<"text", MaxTime + cache_ttl>>, cached_at |-> IsoFormat(0)])

NoData == JsonDumps([expires_at |-> IsoFormat(MaxTime + cache_ttl), cached_at |-> IsoFormat(0)])

CorruptBlobs == {NotJson, NoExpiry, BadExpiry, NoData}

\* another writer of the container leaves a corrupt blob under an endpoint's key
Corrupt(endpoint, blob) ==
    LET k == CacheKey(endpoint)
    IN  /\ blob_service_client # "none"
        /\ store' = [x \in DOMAIN store \cup {k} |-> IF x = k THEN blob ELSE store[x]]
        /\ ret' = NoCall
        /\ lastPut' = [x \in DOMAIN lastPut \ {k} |-> lastPut[x]]
        /\ UNCHANGED <<now, use_cache, blob_service_client, rd, requestVars,
                       listingVars, ag,
                   extractVars, queryVars>>

NextFaulty ==
    \/ Tick
    \/ \E e \in FaultyEndpoints, f \in {"none", "exists", "download", "delete"} :
          CacheGet(e, f)
    \/ \E e \in FaultyEndpoints, f \in {"none", "upload"} :
          CachePut(e, Str(<<"x">>), 0, f)
    \/ \E e \in FaultyEndpoints, b \in CorruptBlobs : Corrupt(e, b)

SpecFaulty == InitCache /\ [][NextFaulty]_vars

\* the store without the entry of an endpoint
Without(st, endpoint) == [k \in DOMAIN st \ {CacheKey(endpoint)} |-> st[k]]

\* a read of the endpoint's entry in store st cannot be served: the cache is
\* disabled or unavailable, a call on the blob store raises, or the entry is
\* corrupt
ReadFails(st, endpoint, fault) ==
    \/ CacheDisabled
    \/ fault = "exists"
    \/ /\ CacheKey(endpoint) \in DOMAIN st
       /\ fault = "download" \/ st[CacheKey(endpoint)] \in CorruptBlobs

\* the _get_from_cache that has just returned could not be served
GetFailed ==
    /\ ret.op = "get"
    /\ \/ CacheDisabled
       \/ ret.fault = "exists"
       \/ ret.entry # None /\ (ret.fault = "download" \/ ret.entry \in CorruptBlobs)

\* the _save_to_cache that has just returned could not write
PutFailed == ret.op = "put" /\ (CacheDisabled \/ ret.fault = "upload")

\* what a write of the run on a miss left, the other run left too
SameStores(a, b, endpoint) ==
    /\ Without(a, endpoint) = Without(b, endpoint)
    /\ CacheKey(endpoint) \in DOMAIN b => a = b

\* a make_request whose cache read fails does what it does on a miss
RequestAsOnMiss(endpoint, fault, script, pfault) ==
    LET a == MakeRequest(store, now, "GET", endpoint, None, FALSE, "default", script, fault, pfault)
        b == MakeRequest(Without(store, endpoint), now, "GET", endpoint, None, FALSE, "default", script, "none", pfault)
    IN  /\ a.frame.pc = b.frame.pc
        /\ a.frame.hist = b.frame.hist
        /\ a.frame.result = b.frame.result
        /\ ~a.frame.from_cache
        /\ a.now = b.now
        /\ SameStores(a.store, b.store, endpoint)

\* a make_request whose cache write fails returns what it returns otherwise
RequestDespitePutFailure(endpoint, script) ==
    LET a == MakeRequest(store, now, "GET", endpoint, None, FALSE, "default", script, "none", "upload")
        b == MakeRequest(store, now, "GET", endpoint, None, FALSE, "default", script, "none", "none")
    IN  /\ a.frame.pc = b.frame.pc
        /\ a.frame.hist = b.frame.hist
        /\ a.frame.result = b.frame.result

\* a get_user_repos whose read of the full listing fails starts to page
ListingAsOnMiss(fault) ==
    LET a == BeginListing(store, now, "u", PerPage, fault)
        b == BeginListing(Without(store, ReposFullKey("u")), now, "u", PerPage, "none")
    IN  /\ a.frame = b.frame
        /\ a.frame.pc = "loop"
        /\ SameStores(a.store, b.store, ReposFullKey("u"))

\* a get_processed_repos whose read of the collection fails starts to list
ProcessedAsOnMiss(fault) ==
    LET a == BeginProcessed(store, now, "u", fault)
        b == BeginProcessed(Without(store, ProcessedKey("u")), now, "u", "none")
    IN  /\ a.frame.pc = "listing"
        /\ a.frame.pc = b.frame.pc
        /\ a.frame.result = b.frame.result
        /\ a.frame.cached = b.frame.cached
        /\ a.frame.processed_repos = b.frame.processed_repos
        /\ SameStores(a.store, b.store, ProcessedKey("u"))

FaultyScripts == {Uniform("ok"), Uniform("timeout"), Uniform("not_found")}

\* C14: _get_from_cache and _save_to_cache never raise: on a backing-store
\* error, on a corrupt entry and with the cache disabled or unavailable, the
\* get returns None and the put returns False, and make_request,
\* get_user_repos and get_processed_repos go on exactly as on a cache miss.
C14_CacheFailuresAreMisses ==
    /\ GetFailed => ret.value = None
    /\ PutFailed => ret.value = FALSE
    /\ \A f \in {"none", "exists", "download"} :
          /\ ReadFails(store, LanguagesEndpoint("u", "A"), f) =>
                \A sc \in FaultyScripts, pf \in {"none", "upload"} :
                    RequestAsOnMiss(LanguagesEndpoint("u", "A"), f, sc, pf)
          /\ ReadFails(store, ReposFullKey("u"), f) => ListingAsOnMiss(f)
          /\ ReadFails(store, ProcessedKey("u"), f) => ProcessedAsOnMiss(f)
    /\ \A sc \in FaultyScripts :
          RequestDespitePutFailure(LanguagesEndpoint("u", "A"), sc)

\* a read of an entry whose expires_at is no timestamp returned None while
\* the entries of all three operations were corrupt
C14_Witness ==
    /\ GetFailed
    /\ ~CacheDisabled
    /\ ret.fault = "none"
    /\ ret.entry = BadExpiry
    /\ ret.value = None
    /\ \A e \in FaultyEndpoints :
          CacheKey(e) \in DOMAIN store /\ store[CacheKey(e)] \in CorruptBlobs

-----------------------------------------------------------------------------
(* Concurrent request flows on one Cache Store: a _get_from_cache taken call *)
(* by call on the blob store, while other flows get and put                  *)

ConcurrentEndpoints == {<<"c">>}

ReadDone(endpoint, value, deleted) ==
    [pc |-> "done", endpoint |-> endpoint, value |-> value, deleted |-> deleted, deleted_at |-> now]

\* lines 55-67: the call up to and with blob_client.exists()
ReadExists(endpoint) ==
    /\ rd.pc \in {"idle", "done"}
    /\ rd' = IF CacheDisabled \/ CacheKey(endpoint) \notin DOMAIN store
             THEN ReadDone(endpoint, None, None)
             ELSE [pc |-> "download", endpoint |-> endpoint]
    /\ UNCHANGED <<now, use_cache, blob_service_client, store, ret, lastPut,
                   requestVars, listingVars, ag,
                   extractVars, queryVars>>

\* lines 69-80: download_blob().readall(), which raises when the blob is gone,
\* json.loads and the expiry check
ReadDownload ==
    /\ rd.pc = "download"
    /\ LET k == CacheKey(rd.endpoint)
       IN  rd' = IF k \notin DOMAIN store \/ ~WellFormed(store[k])
                 THEN ReadDone(rd.endpoint, None, None)
                 ELSE IF NotExpired(FromIsoFormat(JsonLoads(store[k]).expires_at), now)
                 THEN ReadDone(rd.endpoint, JsonLoads(store[k]).data, None)
                 ELSE [pc |-> "delete", endpoint |-> rd.endpoint, seen |-> store[k]]
    /\ UNCHANGED <<now, use_cache, blob_service_client, store, ret, lastPut,
                   requestVars, listingVars, ag,
                   extractVars, queryVars>>

\* line 82: blob_client.delete_blob(), which deletes whatever blob the key
\* holds by now and raises when it holds none
ReadDelete ==
    /\ rd.pc = "delete"
    /\ LET k == CacheKey(rd.endpoint)
       IN  /\ rd' = ReadDone(rd.endpoint, None, IF k \in DOMAIN store THEN store[k] ELSE None)
           /\ store' = [x \in DOMAIN store \ {k} |-> store[x]]
    /\ UNCHANGED <<now, use_cache, blob_service_client, ret, lastPut,
                   requestVars, listingVars, ag,
                   extractVars, queryVars>>

NextConcurrent ==
    \/ Tick
    \/ \E e \in ConcurrentEndpoints : ReadExists(e)
    \/ ReadDownload
    \/ ReadDelete
    \/ \E e \in ConcurrentEndpoints : CacheGet(e, "none")
    \/ \E e \in ConcurrentEndpoints, d \in CachePayloads : CachePut(e, d, 0, "none")

SpecConcurrent == InitCache /\ [][NextConcurrent]_vars

\* C15: with request flows running concurrently on the Cache Store, a get
\* that saw an expired entry never deletes the fresh entry a put has written
\* since, and a get made after a put and before its TTL has elapsed returns
\* the payload of that put.
C15_GetIsAtomicWithPut ==
    /\ (rd.pc = "done" /\ rd.deleted # None) => ~ValidBlob(rd.deleted, rd.deleted_at)
    /\ (ret.op = "get" /\ ~CacheDisabled /\ ret.before) => ret.value = lastPut[RetKey].data

-----------------------------------------------------------------------------
(* Claims about the order of the collection *)

\* where the repository of a record stood in the fetched listing
FetchOrder(info) == CHOOSE n \in 1..Len(Listed) : Listed[n].name = info.name

\* C16: the collection get_processed_repos returns is sorted by updated_at
\* descending, and records with equal updated_at stand in the order their
\* repositories had in the fetched listing.
C16_SortedDescendingAndStable ==
    AggReturned =>
        \A a, b \in 1..Len(ag.result[2]) :
            a < b =>
                LET x == ag.result[2][a]
                    y == ag.result[2][b]
                IN  /\ x.updated_at >= y.updated_at
                    /\ x.updated_at = y.updated_at => FetchOrder(x) < FetchOrder(y)

\* B and C, updated at the same time and listed after the older A, came back
\* in front of A and in their listing order
C16_Witness ==
    /\ AggReturned
    /\ ag.threw = {}
    /\ Len(ag.result[2]) = 3
    /\ ag.result[2][1].name = "B"
    /\ ag.result[2][2].name = "C"
    /\ ag.result[2][3].name = "A"
    /\ ag.result[2][1].updated_at = ag.result[2][2].updated_at
    /\ FetchOrder(ag.result[2][1]) = 2

-----------------------------------------------------------------------------
(* extract_repo_metadata driven directly: every combination of the outcomes *)
(* of its three requests, on an empty store and on the store a call left    *)

\* found, found with a body that is no JSON, absent, every attempt times out
MetadataKinds == {"ok", "ok_text", "not_found", "timeout"}

MetadataScripts == [1..3 -> {Uniform(k) : k \in MetadataKinds}]

ExtractMetadata(repo_name, scripts) ==
    /\ IF md.pc = "idle" THEN TRUE ELSE md.calls < MaxMetadataCalls
    /\ \E r \in {extract_repo_metadata(store, now, repo_name, "u", scripts)} :
          /\ md' = [pc |-> "done", repo_name |-> repo_name, value |-> r.value,
                    fetched |-> r.fetched,
                    calls |-> IF md.pc = "idle" THEN 1 ELSE md.calls + 1]
          /\ store' = r.store
          /\ now' = r.now
    /\ UNCHANGED <<use_cache, blob_service_client, cacheVars, requestVars,
                   listingVars, ag, rs, queryVars>>

NextMetadata == \E repo_name \in {"A", "B"}, scripts \in MetadataScripts : ExtractMetadata(repo_name, scripts)

SpecMetadata == InitCache /\ [][NextMetadata]_vars

\* the keys of the mapping the call returned
MetadataKeys == {md.value[2][n][1] : n \in 1..Len(md.value[2])}

\* the n-th file was found: its request was answered 200, or from the cache
Found(n) ==
    LET f == md.fetched[n]
    IN  f.pc = "returned" /\ (f.from_cache \/ f.response.status = 200)

\* the text of the n-th file, it being found
Content(n) == md.fetched[n].result

\* C17 as stated: whatever the outcomes of the three requests, the call
\* returns a mapping that has 'context' iff .repo-context.json was found and
\* parsed, 'manifest' iff PROJECT-MANIFEST.md was found and 'skills' iff
\* SKILLS-INDEX.md was found.
C17_KeysIffFound ==
    md.pc = "done" =>
        /\ md.value[1] = "dict"
        /\ "context" \in MetadataKeys <=> (Found(1) /\ JsonLoadsText(Content(1)) # Invalid)
        /\ "manifest" \in MetadataKeys <=> Found(2)
        /\ "skills" \in MetadataKeys <=> Found(3)

\* C17 as amended: the same, a file counting as found when its content is
\* not empty
C17_KeysIffFoundNotEmpty ==
    md.pc = "done" =>
        /\ md.value[1] = "dict"
        /\ "context" \in MetadataKeys <=> (Found(1) /\ JsonLoadsText(Content(1)) # Invalid)
        /\ "manifest" \in MetadataKeys <=> (Found(2) /\ Content(2) # Str(<<>>))
        /\ "skills" \in MetadataKeys <=> (Found(3) /\ Content(3) # Str(<<>>))

\* the context file was found but is no JSON, every attempt at the manifest
\* timed out, the skills index was found: the mapping has 'skills' alone
C17_Witness ==
    /\ md.pc = "done"
    /\ Found(1)
    /\ ~md.fetched[1].from_cache
    /\ JsonLoadsText(Content(1)) = Invalid
    /\ md.fetched[2].pc = "raised"
    /\ Found(3)
    /\ MetadataKeys = {"skills"}

-----------------------------------------------------------------------------
(* extract_readme_sections driven directly: READMEs of up to MaxLines lines, *)
(* and the extraction run again on a section it gave                         *)

\* the lines READMEs are made of: headings of two of the five titles, one of
\* them also one level deeper and inside running text, other headings of the
\* second and the third level, text, text with `##` in it, a blank line
ReadmeLines ==
    { <<"#", "#", " ", "Technology Signature", "\n">>,
      <<"#", "#", " ", "Demonstrated Competencies", "\n">>,
      <<"#", "#", "#", " ", "Technology Signature", "\n">>,
      <<"w", " ", "#", "#", " ", "Technology Signature", " ", "w", "\n">>,
      <<"#", "#", " ", "w", "\n">>,
      <<"#", "#", "#", " ", "w", "\n">>,
      <<"w", " ", "#", "#", " ", "w", "\n">>,
      <<"w", "\n">>,
      <<"\n">> }

RECURSIVE Flatten(_)
Flatten(lines) == IF lines = <<>> THEN <<>> ELSE Head(lines) \o Flatten(Tail(lines))

Readmes == {Flatten(lines) : lines \in UNION {[1..n -> ReadmeLines] : n \in 0..MaxLines}}

InitReadme ==
    /\ now = 0
    /\ use_cache = FALSE
    /\ blob_service_client = "none"
    /\ store = <<>>
    /\ ret = NoCall
    /\ rd = [pc |-> "idle"]
    /\ lastPut = <<>>
    /\ mr = [pc |-> "idle"]
    /\ nreq = 0
    /\ upstream = <<>>
    /\ ls = [pc |-> "idle"]
    /\ ag = [pc |-> "idle"]
    /\ md = [pc |-> "idle"]
    /\ rs \in {[pc |-> "input", readme_content |-> Str(d)] : d \in Readmes}
    /\ gc = [pc |-> "idle"]
    /\ pq = [pc |-> "idle"]

ExtractSections ==
    /\ rs.pc = "input"
    /\ rs' = [pc |-> "done", readme_content |-> rs.readme_content,
              sections |-> extract_readme_sections(rs.readme_content)]
    /\ UNCHANGED <<now, use_cache, blob_service_client, store, cacheVars,
                   requestVars, listingVars, ag, md, queryVars>>

\* the extraction run on the n-th section of the mapping as on a document
ExtractAgain(n) ==
    /\ rs.pc = "done"
    /\ n \in 1..Len(rs.sections[2])
    /\ rs' = [pc |-> "again", readme_content |-> rs.readme_content,
              sections |-> rs.sections, key |-> rs.sections[2][n][1],
              section |-> rs.sections[2][n][2],
              again |-> extract_readme_sections(rs.sections[2][n][2])]
    /\ UNCHANGED <<now, use_cache, blob_service_client, store, cacheVars,
                   requestVars, listingVars, ag, md, queryVars>>

NextReadme == ExtractSections \/ \E n \in 1..Len(section_patterns) : ExtractAgain(n)

SpecReadme == InitReadme /\ [][NextReadme]_vars

\* the keys of a mapping, and the value under one of them
KeysOf(dict) == {dict[2][n][1] : n \in 1..Len(dict[2])}

ValueOf(dict, key) == (CHOOSE p \in {dict[2][n] : n \in 1..Len(dict[2])} : p[1] = key)[2]

\* a second-level Markdown heading begins at position i of d: `## ` at the
\* beginning of a line
SecondLevelAt(d, i) ==
    /\ i = 1 \/ d[i - 1] = "\n"
    /\ i + 2 <= Len(d)
    /\ d[i] = "#"
    /\ d[i + 1] = "#"
    /\ d[i + 2] = " "

\* the line at position i of d is the second-level heading of the title
TitleHeadingAt(d, i, title) ==
    /\ SecondLevelAt(d, i)
    /\ i + 4 <= Len(d)
    /\ d[i + 3] = title
    /\ d[i + 4] = "\n"

TitleHeadings(d, title) == {i \in 1..Len(d) : TitleHeadingAt(d, i, title)}

\* the text from after the first heading line of the title up to the next
\* second-level heading or the end of the document, trimmed
SectionOf(d, title) ==
    LET i == CHOOSE x \in TitleHeadings(d, title) : \A y \in TitleHeadings(d, title) : x <= y
        nexts == {j \in (i + 5)..Len(d) : SecondLevelAt(d, j)}
        stop == IF nexts = {} THEN Len(d) + 1
                ELSE CHOOSE x \in nexts : \A y \in nexts : x <= y
    IN  Str(Strip(SubSeq(d, i + 5, stop - 1)))

\* C18: for each recognized heading the document has, the section captured
\* is the text from after the heading line up to, not including, the next
\* second-level heading or the end of the document, trimmed; a deeper
\* heading or a `##` inside the body does not end it.
C18_SectionRunsToNextSecondLevelHeading ==
    rs.pc = "done" =>
        \A n \in 1..Len(section_patterns) :
            TitleHeadings(rs.readme_content[2], section_patterns[n][1]) # {} =>
                /\ section_patterns[n][2] \in KeysOf(rs.sections)
                /\ ValueOf(rs.sections, section_patterns[n][2])
                       = SectionOf(rs.readme_content[2], section_patterns[n][1])

\* C19: a title gives an entry only when the document has it as a
\* second-level heading: not at another heading depth, not inside running
\* text; a document with none of the five headings gives an empty mapping.
C19_OnlySecondLevelHeadingsAreRecognized ==
    rs.pc = "done" =>
        \A n \in 1..Len(section_patterns) :
            TitleHeadings(rs.readme_content[2], section_patterns[n][1]) = {} =>
                section_patterns[n][2] \notin KeysOf(rs.sections)

\* C20: the extraction run again on a section it gave, taken as a whole
\* document, gives for the same key no entry or the same content.
C20_ExtractionIsIdempotent ==
    rs.pc = "again" =>
        \/ rs.key \notin KeysOf(rs.again)
        \/ ValueOf(rs.again, rs.key) = rs.section

\* the extraction was run again on a section of two lines cut from a
\* document that goes on with another heading
C20_Witness ==
    /\ rs.pc = "again"
    /\ rs.key = "tech_stack"
    /\ rs.section = Str(<<"w", "\n", "w">>)
    /\ Len(rs.readme_content[2]) > 9
    /\ rs.again = Dict(<<>>)

-----------------------------------------------------------------------------
(* Context Serializer: GitHubClient.generate_enhanced_context and            *)
(* ai_assistant.generate_enhanced_context.  A text is a sequence of tokens:  *)
(* the literal pieces of the f-strings are tokens of their own, the contents *)
(* of sections and files are a character to the token.                       *)

\* `section_content[:500]`, line 452
SectionPreview == 500

\* `skills_content[:300]`, line 465
SkillsPreview == 300

\* a mutant of BlockSeparator: the blocks are joined by one line break
BlockSeparatorSingle == <<"\n">>

\* `"\n\n".join(context)`
BlockSeparator == <<"\n", "\n">>

\* sep.join(items), the items being texts
RECURSIVE Join(_, _)
Join(sep, items) ==
    IF items = <<>> THEN <<>>
    ELSE IF Len(items) = 1 THEN items[1]
    ELSE items[1] \o sep \o Join(sep, Tail(items))

\* ', '.join(names), each name a token
CommaJoin(names) == Join(<<", ">>, [n \in 1..Len(names) |-> <<names[n]>>])

\* what an f-string prints for a value: str(None) is 'None'
Text(v) == IF v = None THEN <<"None">> ELSE v[2]

\* s[:n]
Prefix(s, n) == SubSeq(s, 1, Min(n, Len(s)))

\* section_name.replace('_', ' ').title()
SectionTitle(section_name) ==
    CASE section_name = "tech_stack"   -> "Tech Stack"
      [] section_name = "skills"       -> "Skills"
      [] section_name = "architecture" -> "Architecture"
      [] section_name = "structure"    -> "Structure"
      [] section_name = "workflow"     -> "Workflow"

\* lines 438-466 of github_client.py: the block of one repository
RepoContext(repo) ==
    LET sections == repo.readme_sections[2]
        metadata == repo.metadata
        section(n) == <<"\n", SectionTitle(sections[n][1]), ":\n">>
                      \o Prefix(sections[n][2][2], SectionPreview) \o <<"...", "\n">>
        context == IF "context" \in KeysOf(metadata) /\ ValueOf(metadata, "context")[1] = "dict"
                   THEN LET c == ValueOf(metadata, "context")[2]
                        IN  Join(<<>>, [n \in 1..Len(c) |->
                                <<"- ", c[n][1], ": ">> \o Text(c[n][2]) \o <<"\n">>])
                   ELSE <<>>
        skills == IF "skills" \in KeysOf(metadata)
                  THEN <<"\nSkills: ">> \o Prefix(ValueOf(metadata, "skills")[2], SkillsPreview)
                       \o <<"...", "\n">>
                  ELSE <<>>
    IN  <<"Repository: ", repo.name, "\n">>
        \o <<"Description: ">> \o Text(repo.description) \o <<"\n">>
        \o (IF Truthy(repo.languages)
            THEN <<"Languages: ">> \o CommaJoin(repo.languages[2]) \o <<"\n">>
            ELSE <<>>)
        \o (IF Truthy(repo.topics)
            THEN <<"Topics: ">> \o CommaJoin(repo.topics[2]) \o <<"\n">>
            ELSE <<>>)
        \o (IF Truthy(repo.readme_sections)
            THEN Join(<<>>, [n \in 1..Len(sections) |-> section(n)])
            ELSE <<>>)
        \o (IF Truthy(metadata)
            THEN <<"\nMetadata:\n">> \o context \o skills
            ELSE <<>>)

\* lines 432-470 of github_client.py
generate_enhanced_context(repos_data) ==
    Str(Join(BlockSeparator, [n \in 1..Len(repos_data[2]) |-> RepoContext(repos_data[2][n])]))

\* `manifest[:300]`, line 157 of ai_assistant.py
ManifestPreview == 300

\* a mutant of RepoContextKey: the key extract_repo_metadata files the
\* context JSON under
RepoContextKeyOfClient == "context"

\* the metadata key ai_assistant.generate_enhanced_context reads the
\* technologies and the skills from, lines 116 and 134
RepoContextKey == "repo_context"

\* d.get(key, default)
DictGet(d, key, default) == IF key \in KeysOf(d) THEN ValueOf(d, key) ELSE default

\* lines 108-160 of ai_assistant.py: the block of one repository
AssistantRepoContext(repo) ==
    LET metadata == repo.metadata
        has_context == RepoContextKey \in KeysOf(metadata)
        repo_context == ValueOf(metadata, RepoContextKey)
        line(d, key, label) ==
            IF key \in KeysOf(d) THEN <<label>> \o CommaJoin(ValueOf(d, key)[2]) \o <<"\n">>
            ELSE <<>>
        tech_stack == DictGet(repo_context, "tech_stack", Dict(<<>>))
        skill_manifest == DictGet(repo_context, "skill_manifest", Dict(<<>>))
        technologies ==
            IF has_context
            THEN IF Truthy(tech_stack)
                 THEN <<"## Technologies\n">>
                      \o line(tech_stack, "primary", "### Primary: ")
                      \o line(tech_stack, "secondary", "### Secondary: ")
                      \o line(tech_stack, "key_libraries", "### Key Libraries: ")
                 ELSE <<>>
            ELSE <<"## Technologies\nMain Language: ">> \o Text(repo.language) \o <<"\n">>
                 \o <<"All Languages: ">> \o CommaJoin(repo.languages[2]) \o <<"\n">>
        skills ==
            IF has_context /\ Truthy(skill_manifest)
            THEN <<"## Skills Demonstrated\n">>
                 \o line(skill_manifest, "technical", "### Technical: ")
                 \o line(skill_manifest, "domain", "### Domain: ")
            ELSE <<>>
        section(key, label) ==
            IF key \in KeysOf(repo.readme_sections)
            THEN <<label>> \o ValueOf(repo.readme_sections, key)[2] \o <<"\n\n">>
            ELSE <<>>
        manifests ==
            IF "project_manifests" \in KeysOf(metadata)
            THEN LET m == ValueOf(metadata, "project_manifests")[2]
                 IN  <<"## Project Components\n">>
                     \o Join(<<>>, [n \in 1..Len(m) |->
                            <<"### ", m[n][1], "\n">> \o Prefix(m[n][2][2], ManifestPreview)
                            \o <<"...", "\n\n">>])
            ELSE <<>>
    IN  <<"# ", repo.name, "\n">>
        \o <<"## Overview\n">> \o Text(repo.description) \o <<"\n\n">>
        \o technologies
        \o skills
        \o section("architecture", "## Architecture\n")
        \o section("workflow", "## Workflow\n")
        \o manifests

\* lines 103-164 of ai_assistant.py
assistant_generate_enhanced_context(filtered_repos) ==
    Str(Join(BlockSeparator, [n \in 1..Len(filtered_repos[2]) |-> AssistantRepoContext(filtered_repos[2][n])]))

-----------------------------------------------------------------------------
(* The serializers driven directly: collections of up to two records, each   *)
(* serializer called on them twice                                           *)

\* a text of n characters
Chars(n) == [i \in 1..n |-> "w"]

SectionLengths == {1, SectionPreview, SectionPreview + 1}

SkillsLengths == {SkillsPreview, SkillsPreview + 1}

\* the auxiliary metadata of a record: none, what extract_repo_metadata
\* gives (context, skills), what ai_assistant.generate_enhanced_context
\* reads (repo_context, project_manifests)
MetadataOf(shape, n) ==
    CASE shape = "none" -> Dict(<<>>)
      [] shape = "client" ->
            Dict(<< <<"context", Dict(<< <<"type", Str(<<"service">>)>> >>)>>,
                    <<"skills", Str(Chars(n))>> >>)
      [] shape = "assistant" ->
            Dict(<< <<"repo_context",
                      Dict(<< <<"tech_stack", Dict(<< <<"primary", List(<<"Rust">>)>> >>)>>,
                              <<"skill_manifest", Dict(<< <<"technical", List(<<"parsing">>)>> >>)>> >>)>>,
                    <<"project_manifests", Dict(<< <<"core", Str(Chars(n))>> >>)>> >>)

\* a record of the collection, as get_processed_repos builds them
ContextRepo(name, section_length, shape, n) ==
    RepoInfo(Repo(name, 5, FALSE, "u", None), LanguagesOf("A"), Str(<<>>),
             Dict(<< <<"tech_stack", Str(<<"w">>)>>,
                     <<"architecture", Str(Chars(section_length))>> >>),
             MetadataOf(shape, n))

ContextRepos(name) ==
    {ContextRepo(name, l, "none", 0) : l \in SectionLengths}
    \cup {ContextRepo(name, l, sh, n) : l \in SectionLengths, sh \in {"client", "assistant"}, n \in SkillsLengths}

Collections ==
    {List(<<>>)} \cup {List(<<a>>) : a \in ContextRepos("A")}
    \cup {List(<<a, b>>) : a \in ContextRepos("A"), b \in ContextRepos("B")}

Serializers == {"client", "assistant"}

SerializerText(which, repos_data) ==
    IF which = "client" THEN generate_enhanced_context(repos_data)
    ELSE assistant_generate_enhanced_context(repos_data)

InitContext ==
    /\ now = 0
    /\ use_cache = FALSE
    /\ blob_service_client = "none"
    /\ store = <<>>
    /\ ret = NoCall
    /\ rd = [pc |-> "idle"]
    /\ lastPut = <<>>
    /\ mr = [pc |-> "idle"]
    /\ nreq = 0
    /\ upstream = <<>>
    /\ ls = [pc |-> "idle"]
    /\ ag = [pc |-> "idle"]
    /\ md = [pc |-> "idle"]
    /\ rs = [pc |-> "idle"]
    /\ gc \in {[pc |-> "input", repos_data |-> c] : c \in Collections}
    /\ pq = [pc |-> "idle"]

\* a call of a serializer on the collection: the text it returns, and the
\* collection as the call leaves it (the code assigns to no part of it)
Serialize(which) ==
    /\ gc.pc = "input"
    /\ gc' = [pc |-> "once", which |-> which, given |-> gc.repos_data,
              repos_data |-> gc.repos_data,
              text |-> SerializerText(which, gc.repos_data)]
    /\ UNCHANGED <<now, use_cache, blob_service_client, store, cacheVars,
                   requestVars, listingVars, ag, extractVars, pq>>

\* the same serializer called again on the collection the first call left
SerializeAgain ==
    /\ gc.pc = "once"
    /\ gc' = [gc EXCEPT !.pc = "twice"] @@ [again |-> SerializerText(gc.which, gc.repos_data)]
    /\ UNCHANGED <<now, use_cache, blob_service_client, store, cacheVars,
                   requestVars, listingVars, ag, extractVars, pq>>

NextContext == (\E which \in Serializers : Serialize(which)) \/ SerializeAgain

SpecContext == InitContext /\ [][NextContext]_vars

\* the piece stands somewhere in the text
Occurs(text, piece) ==
    \E i \in 1..(Len(text) - Len(piece) + 1) :
        text[i] = piece[1] /\ SubSeq(text, i, i + Len(piece) - 1) = piece

\* a text cut at limit characters, the ellipsis marker behind it exactly
\* when something was cut off
Shortened(text, limit) ==
    IF Len(text) > limit THEN SubSeq(text, 1, limit) \o <<"...">> ELSE text

SerializedByClient == gc.pc \in {"once", "twice"} /\ gc.which = "client"

\* C21: in the text of GitHubClient.generate_enhanced_context every README
\* section stands cut at 500 characters and the skills text cut at 300, with
\* the ellipsis marker exactly when the text was longer than that.
C21_EllipsisExactlyWhenTruncated ==
    SerializedByClient =>
        \A n \in 1..Len(gc.given[2]) :
            LET repo == gc.given[2][n]
            IN  /\ \A k \in 1..Len(repo.readme_sections[2]) :
                      Occurs(gc.text[2],
                             <<SectionTitle(repo.readme_sections[2][k][1]), ":\n">>
                             \o Shortened(repo.readme_sections[2][k][2][2], SectionPreview)
                             \o <<"\n">>)
                /\ "skills" \in KeysOf(repo.metadata) =>
                      Occurs(gc.text[2],
                             <<"\nSkills: ">>
                             \o Shortened(ValueOf(repo.metadata, "skills")[2], SkillsPreview)
                             \o <<"\n">>)

-----------------------------------------------------------------------------
(* Query endpoint: function_app.portfolio_query with                         *)
(* ai_assistant.query_ai_assistant, a request at a time                      *)

\* lines 322-337 of ai_assistant.py: the system message around the context
SystemMessage(context) ==
    <<"You are an AI assistant that helps users understand Chigbu Joshua's portfolio projects.\n">>
    \o context[2] \o <<"\n\nWhen answering:\n">>

\* func.HttpResponse(json.dumps(body), status_code=status)
HttpResponse(status, body) == [status |-> status, body |-> body]

\* a request answered (repos: it came to call get_processed_repos;
\* after_failure: the listing fetch of the request before it failed totally):
\* the response and the completion request made for it
\* (no messages when none was made)
Answered(f, response, completion) ==
    [pc |-> "done", count |-> f.count, query |-> f.query, repos |-> f.repos,
     after_failure |-> f.after_failure,
     response |-> response, completion |-> completion]

\* lines 151-194 of function_app.py: the request up to get_processed_repos,
\* and get_processed_repos up to the first page of the listing.  body is what
\* req.get_json() comes to, token whether GITHUB_TOKEN is set.
PqStart(method, body, token) ==
    /\ pq.pc \in {"idle", "done"}
    /\ ag.pc \in {"idle", "done"}
    /\ IF pq.pc = "idle" THEN TRUE ELSE pq.count < MaxQueries
    /\ LET f == [count |-> IF pq.pc = "idle" THEN 1 ELSE pq.count + 1,
                 query |-> IF body = "query" THEN Str(<<"which", "projects">>) ELSE None,
                 repos |-> FALSE,
                 after_failure |-> IF pq.pc = "done" /\ pq.repos
                                   THEN ~ag.cached /\ ls.stop = "raised" /\ ls.all_repos = <<>>
                                   ELSE FALSE]
           b == BeginProcessed(store, now, "u", "none")
           l == BeginListing(b.store, now, "u", DefaultPerPage, "none")
           refused(r) == /\ pq' = Answered(f, r, <<>>)
                         /\ UNCHANGED <<store, ls, ag>>
       IN  IF method = "OPTIONS" THEN refused(HttpResponse(200, <<>>))
           ELSE IF body = "invalid"
           THEN refused(HttpResponse(500, <<"error", "Internal server error">>))
           ELSE IF body = "no_query"
           THEN refused(HttpResponse(400, <<"error", "Missing query parameter">>))
           ELSE IF ~token
           THEN refused(HttpResponse(500, <<"error", "GitHub token not configured">>))
           ELSE /\ pq' = [f EXCEPT !.repos = TRUE] @@ [pc |-> "repos"]
                /\ ag' = b.frame
                /\ IF b.frame.pc = "done"
                   THEN store' = b.store /\ ls' = ls
                   ELSE store' = l.store /\ ls' = l.frame
    /\ UNCHANGED <<now, use_cache, blob_service_client, cacheVars, requestVars,
                   upstream, extractVars, gc>>

\* lines 196-243 of function_app.py and query_ai_assistant: the request from
\* the return of get_processed_repos on.  groq is what the completion call
\* comes to ("unconfigured": GROQ_API_KEY is not set).
PqFinish(groq) ==
    /\ pq.pc = "repos"
    /\ ag.pc \in {"done", "raised"}
    /\ LET context == assistant_generate_enhanced_context(ag.result)
           completion == <<[role |-> "system", content |-> SystemMessage(context)],
                         [role |-> "user", content |-> pq.query[2]]>>
           network == ag.pc = "raised" /\ "Failed to resolve" \in {ag.result[n] : n \in 1..Len(ag.result)}
           cached_repos == GetFromCache(store, ProcessedKey("u"), now, "none")
       IN  IF ag.pc = "raised" /\ ~(network /\ Truthy(cached_repos.value))
           THEN /\ pq' = Answered(pq, IF network
                                      THEN HttpResponse(503, <<"error", "Network connectivity issue accessing GitHub API">>)
                                      ELSE HttpResponse(500, <<"error", "Failed to retrieve repository data">>),
                                  <<>>)
                /\ store' = IF network THEN cached_repos.store ELSE store
           ELSE /\ store' = store
                /\ pq' = IF groq = "unconfigured"
                         THEN Answered(pq, HttpResponse(500, <<"error", "AI processing error">>), <<>>)
                         ELSE IF groq = "error"
                         THEN Answered(pq, HttpResponse(500, <<"error", "AI processing error">>), completion)
                         ELSE Answered(pq, HttpResponse(200, <<"response", "answer">>), completion)
    /\ UNCHANGED <<now, use_cache, blob_service_client, cacheVars, requestVars,
                   listingVars, ag, extractVars, gc>>

\* the three special files of every repository are absent
NoFilesScripts ==
    [languages |-> Uniform("ok"), readme |-> Uniform("ok"),
     files |-> <<Uniform("not_found"), Uniform("not_found"), Uniform("not_found")>>]

\* the upstream cannot be resolved
DnsScripts ==
    [languages |-> Uniform("dns"), readme |-> Uniform("dns"),
     files |-> <<Uniform("dns"), Uniform("dns"), Uniform("dns")>>]

NextQuery ==
    \/ \E method \in {"POST", "OPTIONS"}, body \in {"query", "no_query", "invalid"}, token \in BOOLEAN :
          PqStart(method, body, token)
    \/ \E k \in {"ok", "dns"} : AggFetchPage(k)
    \/ AggListFinish
    \/ \E sc \in {OkScripts, NoFilesScripts, DnsScripts} : ProcessNext(sc)
    \/ AggFinish
    \/ \E groq \in {"ok", "error", "unconfigured"} : PqFinish(groq)

SpecQuery == InitAgg /\ [][NextQuery]_vars

\* the request made a completion request
CompletionRequested == pq.pc = "done" /\ pq.completion # <<>>

\* the block of the repository called name in the system message of a
\* completion request: from its header to the next header or to the end of
\* the context
BlockOf(system, name) ==
    LET starts == {i \in 1..(Len(system) - 1) : system[i] = "# " /\ system[i + 1] = name}
        i == CHOOSE x \in starts : TRUE
        ends == {j \in (i + 1)..Len(system) : system[j] = "# " \/ system[j] = "\n\nWhen answering:\n"}
        j == CHOOSE x \in ends : \A y \in ends : x <= y
    IN  IF starts = {} THEN <<>> ELSE SubSeq(system, i, j - 1)

\* the records of the collection the request serves whose languages are Go
\* and Shell
GoShellRecords ==
    {n \in 1..Len(ag.result[2]) : ag.result[2][n].languages = List(<<"Go", "Shell">>)}

\* C22: at the query endpoint, the context of the completion request names
\* Go and Shell in the block of every repository of the collection whose
\* languages are Go and Shell, whether or not the repository's metadata have
\* a context JSON object
C22_LanguagesReachTheCompletionRequest ==
    CompletionRequested =>
        \A n \in GoShellRecords :
            LET block == BlockOf(pq.completion[1].content, ag.result[2][n].name)
            IN  /\ Occurs(block, <<"Go">>)
                /\ Occurs(block, <<"Shell">>)

\* a completion request made from a cached collection whose Go and Shell
\* repository has a context JSON object
C22_Witness ==
    /\ CompletionRequested
    /\ ag.cached
    /\ \E n \in GoShellRecords : "context" \in KeysOf(ag.result[2][n].metadata)

\* the same, the repository having no context JSON object
C22_WitnessNoContext ==
    /\ CompletionRequested
    /\ ag.cached
    /\ \E n \in GoShellRecords : "context" \notin KeysOf(ag.result[2][n].metadata)

\* the request called get_processed_repos, no cached collection was there, and
\* the listing fetch failed totally: the first page raised, nothing collected
ListingFailedTotally ==
    /\ pq.pc = "done"
    /\ pq.repos
    /\ ~ag.cached
    /\ ls.stop = "raised"
    /\ ls.all_repos = <<>>

\* C23: a request whose listing fetch failed totally, with no cached
\* collection to serve, is answered 503 with an error field and not 200
C23_TotalListingFailureIsAnError ==
    ListingFailedTotally =>
        /\ pq.response.status = 503
        /\ pq.response.body[1] = "error"

-----------------------------------------------------------------------------
(* Claims about the serializers as functions of the collection *)

\* the positions of the text at which a block begins: the literal that opens
\* the block of a repository
BlockStarts(which, text) ==
    {i \in 1..Len(text) : text[i] = IF which = "client" THEN "Repository: " ELSE "# "}

\* the names behind the block openings of the text, in the order of the text
NamesInOrder(which, text) ==
    LET starts == BlockStarts(which, text)
        nth(k) == CHOOSE i \in starts : Cardinality({j \in starts : j < i}) = k - 1
    IN  [k \in 1..Cardinality(starts) |-> text[nth(k) + 1]]

\* the texts of the one-record collections of the records, one after the
\* other with a double line break between two of them
RECURSIVE BlocksOneByOne(_, _)
BlocksOneByOne(which, records) ==
    IF records = <<>> THEN <<>>
    ELSE SerializerText(which, List(<<Head(records)>>))[2]
         \o (IF Len(records) > 1 THEN <<"\n", "\n">> ELSE <<>>)
         \o BlocksOneByOne(which, Tail(records))

CollectionKeys == {CacheKey(ReposFullKey("u")), CacheKey(ProcessedKey("u"))}

\* C33: no collection-level entry of the store holds an empty collection, a
\* call answered from a collection-level entry returns a collection that is
\* not empty, and the get_processed_repos call that follows a call whose
\* listing fetch failed totally is answered from no collection-level entry:
\* it fetches the listing again
C33_EmptyCollectionsAreNotCached ==
    /\ \A k \in CollectionKeys :
           k \in DOMAIN store => JsonLoads(store[k]).data[2] # <<>>
    /\ (ag.pc = "done" /\ ag.cached) => ag.result[2] # <<>>
    /\ (pq.pc \in {"repos", "done"} /\ pq.repos /\ pq.after_failure) =>
           /\ ~ag.cached
           /\ ~ls.cached

\* the second of two requests fetched the listing again, with success, after
\* the listing fetch of the first had failed totally and the first had been
\* answered from an empty collection
C33_Witness ==
    /\ pq.pc = "done"
    /\ pq.count = 2
    /\ pq.after_failure
    /\ pq.repos
    /\ ~ag.cached
    /\ ls.stop = "short"
    /\ Len(ag.result[2]) = 3
    /\ CollectionKeys \subseteq DOMAIN store

=============================================================================
